---- MODULE Spec2Model ----
(***************************************************************************)
(* A model of ossfs' in-memory inode graph.                                *)
(*                                                                         *)
(* Two generations of the inode manager live in the repository and both    *)
(* are modelled here:                                                      *)
(*                                                                         *)
(*  - src/src/ossfs_impl/tree.rs + manager.rs: the sharded tree, the       *)
(*    name index behind its own RwLock and the atomic inode allocator      *)
(*    (specification SpecTree, variables prefixed by nothing/"m").         *)
(*  - src/src/ossfs_impl/filesystem.rs: the FileSystem facade with the     *)
(*    InodeManager behind one global RwLock (specification Spec,           *)
(*    variables prefixed "fs").                                            *)
(*                                                                         *)
(* Every lock-protected block of the code is one atomic action; a lock     *)
(* that the code keeps across a call that can block (the parent shard      *)
(* lock in Tree::children, the manager lock across a backend call) is      *)
(* held in a variable between the steps.                                   *)
(***************************************************************************)
EXTENDS Integers, Sequences, FiniteSets, TLC

\* ------------------------------------------------------------------ bounds

\* Number of request threads.
NumThreads == 2

\* Number of shards of the tree.  tree.rs:67 builds 100 branches; the model
\* keeps i % BranchCount / i / BranchCount but scales the count down so that
\* two inodes of the same shard can be allocated within the bounds.
BranchCount == 2

\* Total number of nodes the threads hand to add_node_locally and
\* batch_add_node_locally.
MaxAdds == 3

\* Total number of nodes handed to add_node_locally when only add_node_locally
\* is called (no batches, no readers).
MaxAddsAlone == 4

\* Total number of read requests (get, children, get_child_by_name) started.
MaxReads == 1

\* Longest node list handed to batch_add_node_locally.
MaxBatch == 2

\* Total number of requests the threads send to the FileSystem facade.
MaxRequests == 3

\* get_children_by_index taken alone: the longest child list and the largest
\* offset it is applied to (both beyond one page of 85).
MaxChildren == 100

MaxOffset == 100

\* FileSystem::read taken alone: the largest attribute size of the file read;
\* offsets and requested lengths go one beyond it.
MaxSize == 4

\* The request translator (fs/fuse.rs) taken alone: requests the kernel
\* sends, and the largest file handle and inode it sends them with.
MaxFuseRequests == 3

MaxHandle == 2

MaxIno == 3

MaxEntries == 2

MaxObjectSize == 2

MaxDrops == 3

MaxClock == 3

Threads == 1..NumThreads

Shards == 0..(BranchCount - 1)

Names == {"a", "b"}

\* The tags test_counter's two threads time
Tags == {"foo", "bar"}

\* ------------------------------------------------------------------ nodes

\* node.rs InnerNode: inode, parent, path, attr (of attr only attr.ino and
\* the kind matter here).  A path is a sequence of names; the root's is <<>>.
MkNode(inode, parent, path, kind) ==
    [inode |-> inode, parent |-> parent, path |-> path, kind |-> kind,
     attr_ino |-> inode]

\* set_inode leaving attr.ino as it was.
SetInodeNoAttr(n, inode, parent) ==
    [n EXCEPT !.inode = inode, !.parent = parent]

\* node.rs set_inode: writes inode, parent and attr.ino under one write lock.
SetInode(n, inode, parent) ==
    [n EXCEPT !.inode = inode, !.parent = parent, !.attr_ino = inode]

\* The first component of the path taken for the last.
FileNameFirst(path) == path[1]

\* Path::file_name() of a non-root path.
FileName(path) == path[Len(path)]

\* backend root(): inode 1, parent 1, the backend's root path.
RootNode == MkNode(1, 1, <<>>, "dir")

\* What a backend hands to add_child: inode 0, parent 0.
FreshNode(name) == MkNode(0, 0, <<name>>, "file")

\* tree.rs Node::new
TreeNode(n) == [inode |-> n, children_inodes |-> <<>>]

VARIABLES
    branches,        \* tree.rs Tree.branches: shard -> Seq(tree node)
    node_count,      \* tree.rs Tree.node_count
    next_inodes,     \* manager.rs InodeManager.next_inodes
    children_name,   \* manager.rs InodeManager.children_name
    shard_readers,   \* shard -> threads holding its read lock across steps
    index_readers,   \* threads holding children_name's read lock across steps
    poisoned,        \* shard -> a writer panicked while holding its lock
    policy,          \* how the platform's RwLock treats readers while a writer waits
    issued,          \* history: the values next_inode returned, in order
    known,           \* history: the inodes handed back to callers so far
    adds,            \* nodes handed to the add operations so far
    reads,           \* read requests started so far
    tt               \* thread -> its operation, position and locals

treeVars == <<branches, node_count, next_inodes, children_name, shard_readers,
              index_readers, poisoned, policy, issued, known, adds, reads, tt>>

VARIABLES
    fs_tree,          \* filesystem.rs InodeManager.nodes_tree: NodeId -> node, children
    fs_ino_mapper,    \* filesystem.rs InodeManager.ino_mapper: inode -> NodeId
    fs_children_name, \* filesystem.rs InodeManager.children_name
    fs_readers,       \* threads holding nodes_manager's read lock across steps
    backend,          \* the paths that exist in the backend
    get_node_calls,   \* history: backend get_node calls made so far
    requests,         \* requests started so far
    ft                \* thread -> its request, position and locals

fsVars == <<fs_tree, fs_ino_mapper, fs_children_name, fs_readers, backend,
            get_node_calls, requests, ft>>

\* get_children_by_index taken alone, applied to its arguments once
VARIABLES
    page_children,    \* the parent's children, in list order
    page_offset,      \* argument offset
    page_limit,       \* argument limit
    page_check_empty, \* argument check_empty
    page_result,      \* what filesystem.rs's get_children_by_index returned
    page_result_mgr,  \* what manager.rs's get_children_by_index returned
    page_pc           \* "call" before the application, "done" after, "off" when unused

pageVars == <<page_children, page_offset, page_limit, page_check_empty,
              page_result, page_result_mgr, page_pc>>

\* FileSystem::read taken alone, applied to its arguments once
VARIABLES
    rd_attr_size,     \* node.attr().size of the file read; the backend file is as long
    rd_offset,        \* argument offset
    rd_size,          \* argument size
    rd_all,           \* argument all
    rd_backend,       \* "simple" (local directory) or "filer" (seaweedfs)
    rd_build,         \* "debug" (overflow checks on) or "release" (wrapping)
    rd_request,       \* the (offset, size) handed to backend.read, if it was called
    rd_calls,         \* history: calls of backend.read
    rd_result,        \* what the callback f was given
    rd_pc             \* "call", "backend", "done", "panicked"; "off" when unused

readVars == <<rd_attr_size, rd_offset, rd_size, rd_all, rd_backend, rd_build,
              rd_request, rd_calls, rd_result, rd_pc>>

\* The request translator, fs/fuse.rs, over fs/filesystem.rs
VARIABLES
    fuse_next_handle, \* Fuse.next_handle (AtomicU64)
    fuse_backend,     \* the names that exist under the backend's root
    fuse_resident,    \* fs/filesystem.rs: names of the root's children, in tree
                      \* order; the k-th has inode k + 1
    fuse_opens,       \* history: the replies of open and opendir, in order
    fuse_released,    \* history: the handle ids release was called with
    fuse_reply,       \* the reply of the last request
    fuse_requests,    \* requests handled so far
    fuse_pc           \* "on"; "off" when unused

fuseVars == <<fuse_next_handle, fuse_backend, fuse_resident, fuse_opens,
              fuse_released, fuse_reply, fuse_requests, fuse_pc>>

\* SimpleBackend::read taken alone, applied to its arguments once
VARIABLES
    sr_opens,         \* whether the file at path can be opened for reading
    sr_len,           \* file.metadata().len()
    sr_offset,        \* argument offset
    sr_size,          \* argument size
    sr_read_calls,    \* history: calls of file.read_exact
    sr_result,        \* what read returned
    sr_pc             \* "call" before the application, "done" after, "off" when unused

simpleVars == <<sr_opens, sr_len, sr_offset, sr_size, sr_read_calls, sr_result, sr_pc>>

\* S3Backend::get_children taken alone, applied to one listing response once
VARIABLES
    s3_ok,              \* whether list_objects_v2 answers with a listing
    s3_common_prefixes, \* ListObjectsV2Output.common_prefixes
    s3_contents,        \* ListObjectsV2Output.contents
    s3_result,          \* what get_children returned
    s3_pc               \* "call", "done", "panicked"; "off" when unused

s3Vars == <<s3_ok, s3_common_prefixes, s3_contents, s3_result, s3_pc>>

\* counter/mod.rs: one Counter shared by the threads, as in test_counter
VARIABLES
    ct_clock,     \* the system clock (SystemTime::now()), in ticks
    ct_tags,      \* Counter.tags: tag -> Recored, or no entry
    ct_mutex,     \* the thread holding the lock of tags, 0 when it is free
    ct_poisoned,  \* a thread panicked while holding the lock of tags
    ct_divisors,  \* history: every entry.count as u32 an average was divided by
    ct_started,   \* Tracers started so far
    ct_th         \* thread -> its Tracer, position in drop and locals

counterVars == <<ct_clock, ct_tags, ct_mutex, ct_poisoned, ct_divisors, ct_started,
                 ct_th>>

restVars == <<simpleVars, s3Vars, counterVars>>

vars == <<treeVars, fsVars, pageVars, readVars, fuseVars, restVars>>

\* ------------------------------------------------------------------ tree.rs

\* ino = i is located at tree[i % branch_count][i / branch_count]
ShardOf(ino) == ino % BranchCount

PosOf(ino) == ino \div BranchCount

\* Position of inode ino as a 1-based index of the shard's sequence.
Slot(ino) == PosOf(ino) + 1

\* branch.nodes[ino / branches_count] is in range
InRange(br, ino) == Slot(ino) <= Len(br[ShardOf(ino)])

\* Tree::get's indexing, where it does not panic.
TreeGet(br, ino) == br[ShardOf(ino)][Slot(ino)].inode

\* Tree::new: the root is pushed to branches[0] and to branches[1]
TreeNew ==
    [s \in Shards |-> IF s \in {0, 1} THEN <<TreeNode(RootNode)>> ELSE <<>>]

\* child_branch.nodes.push(Node::new(child))
PushNode(br, child) ==
    [br EXCEPT ![ShardOf(child.inode)] = Append(@, TreeNode(child))]

\* The child's inode put at the front of the parent's child list.
PushChildFront(br, parent_ino, child_inode) ==
    [br EXCEPT ![ShardOf(parent_ino)][Slot(parent_ino)].children_inodes =
                   <<child_inode>> \o @]

\* nodes[parent_ino / branch_count].children_inodes.push(child_inode)
PushChild(br, parent_ino, child_inode) ==
    [br EXCEPT ![ShardOf(parent_ino)][Slot(parent_ino)].children_inodes =
                   Append(@, child_inode)]

\* (child_ino - parent_ino) % branch_count == 0
SameBranch(child_ino, parent_ino) ==
    (child_ino - parent_ino) % BranchCount = 0

\* ------------------------------------------------------------------ locks

\* std::sync::RwLock leaves the priority policy to the platform: a waiting
\* writer may or may not block new readers.
Policies == {"reader_pref", "writer_pref"}

\* Threads that have called write() on shard s and have not got it yet:
\* Tree::insert at the child's shard, then at the parent's.
WaitingWriters(s) ==
    {u \in Threads :
        \/ tt[u].pc = "ins_wchild" /\ ShardOf(tt[u].node.inode) = s
        \/ tt[u].pc = "ins_wparent" /\ ShardOf(tt[u].ino) = s}

\* branches[s].read() returns: no writer holds a shard across steps, so only
\* a waiting writer can keep a reader out, and only on a writer-preferring lock.
CanRead(t, s) ==
    policy = "writer_pref" => WaitingWriters(s) \ {t} = {}

\* branches[s].write() returns
CanWrite(t, s) == shard_readers[s] = {}

\* Threads that have called children_name.write()
IndexWaitingWriters == {u \in Threads : tt[u].pc = "add_index"}

\* children_name.read() returns
CanReadIndex(t) ==
    policy = "writer_pref" => IndexWaitingWriters \ {t} = {}

\* children_name.write() returns
CanWriteIndex(t) == index_readers = {}

\* ------------------------------------------------------------------ threads

NoNode == MkNode(0, 0, <<>>, "none")

\* The inode the name index holds for (p, name), 0 when it holds none.
IndexLookup(idx, p, name) ==
    IF p \in DOMAIN idx /\ name \in DOMAIN idx[p] THEN idx[p][name] ELSE 0

\* A thread that has no request yet.
Idle ==
    [pc |-> "idle", op |-> "none", ino |-> 0, arg |-> <<>>, off |-> 0, pre |-> 0,
     todo |-> <<>>, node |-> NoNode, k |-> 0, list |-> <<>>, acc |-> <<>>,
     rk |-> "", rv |-> <<>>, at |-> "", io |-> "", seq |-> 0, fin |-> 0]

\* A request as it starts: op(ino, arg) (off: the offset of a page request).
\* pre is history: what the name index held for (ino, arg[1]) when the
\* request was made.  seq is history: the request's number among the
\* requests made to the facade.
Call(op, ino, arg, pre) ==
    [Idle EXCEPT !.op = op, !.ino = ino, !.arg = arg, !.pre = pre,
                 !.seq = requests + 1]

CallAt(op, ino, offset) == [Call(op, ino, <<>>, 0) EXCEPT !.off = offset]

\* A request that returned rv (rk says which kind of result): the thread is
\* idle again and remembers its last request and the result.  io is history:
\* how the request's backend call ended; fin is history: how many requests
\* had been made when this one returned.
Return(r, rk, rv) ==
    [Call(r.op, r.ino, r.arg, r.pre) EXCEPT
        !.off = r.off, !.rk = rk, !.rv = rv, !.io = r.io, !.seq = r.seq,
        !.fin = IF r.seq > requests THEN r.seq ELSE requests]

\* A thread that panicked: unwinding drops every guard it held.  at keeps
\* the position of the panic ("idle": in the request's first block).
Panicked(r) == [r EXCEPT !.pc = "panicked", !.rk = "panic", !.at = r.pc]

\* Unwinding releases the read locks of t.
DropReads(t) ==
    /\ shard_readers' = [s \in Shards |-> shard_readers[s] \ {t}]
    /\ index_readers' = index_readers \ {t}

\* Node lists handed to batch_add_node_locally
Batches ==
    UNION {[1..n -> Names] : n \in 1..MaxBatch}

\* manager.rs InodeManager::new over Tree::new(root); the name index is
\* created with the root's (empty) map as FileSystem::new does.
TreeInit ==
    /\ branches = TreeNew
    /\ node_count = 2
    /\ next_inodes = 2
    /\ children_name = [p \in {1} |-> [n \in {} |-> 0]]
    /\ shard_readers = [s \in Shards |-> {}]
    /\ index_readers = {}
    /\ poisoned = [s \in Shards |-> FALSE]
    /\ policy \in Policies
    /\ issued = <<>>
    /\ known = {1}
    /\ adds = 0
    /\ reads = 0
    /\ tt = [t \in Threads |-> Idle]

\* ------------------------------------------------------------------ manager.rs

\* A fetch_add that loses its increment (a load in place of a fetch_add).
FetchAddLost(counter) == counter

\* next_inodes.fetch_add(1, SeqCst): the counter after the call (the call
\* returns the counter before it).
FetchAdd(counter) == counter + 1

\* The name index left as it was: add_node_locally without its update of
\* children_name.
IndexInsertLost(idx, parent, child) == idx

\* children_name.get_mut(&parent) / insert: the entry for the child's file
\* name is written, replacing whatever the name pointed to.
IndexInsert(idx, parent, child) ==
    IF parent \in DOMAIN idx
    THEN [idx EXCEPT ![parent] =
            [n \in DOMAIN @ \cup {FileName(child.path)} |->
                IF n = FileName(child.path) THEN child.inode ELSE @[n]]]
    ELSE [q \in DOMAIN idx \cup {parent} |->
            IF q = parent
            THEN [n \in {FileName(child.path)} |-> child.inode]
            ELSE idx[q]]

\* add_node_locally(parent_inode, &child_node) is called, as one of at most
\* max nodes added
StartAddChildUpTo(t, p, name, max) ==
    /\ tt[t].pc = "idle"
    /\ adds < max
    /\ adds' = adds + 1
    /\ tt' = [tt EXCEPT ![t] =
                [Call("add_child", p, <<name>>, IndexLookup(children_name, p, name))
                    EXCEPT !.pc = "add_next", !.todo = <<FreshNode(name)>>]]
    /\ UNCHANGED <<branches, node_count, next_inodes, children_name,
                   shard_readers, index_readers, poisoned, policy, issued, known, reads>>

StartAddChild(t, p, name) == StartAddChildUpTo(t, p, name, MaxAdds)

\* batch_add_node_locally(parent_inode, &children_nodes) is called; an empty
\* list returns at once.
StartBatch(t, p, names) ==
    /\ tt[t].pc = "idle"
    /\ adds + Len(names) <= MaxAdds
    /\ adds' = adds + Len(names)
    /\ tt' = [tt EXCEPT ![t] =
                [Call("batch", p, names, IndexLookup(children_name, p, names[1]))
                    EXCEPT !.pc = "add_next",
                           !.todo = [i \in 1..Len(names) |-> FreshNode(names[i])]]]
    /\ UNCHANGED <<branches, node_count, next_inodes, children_name,
                   shard_readers, index_readers, poisoned, policy, issued, known, reads>>

\* let next_inode = self.next_inode(); child_node.set_inode(next_inode, parent)
AddNext(t) ==
    /\ tt[t].pc = "add_next"
    /\ next_inodes' = FetchAdd(next_inodes)
    /\ issued' = Append(issued, next_inodes)
    /\ tt' = [tt EXCEPT ![t].pc = "ins_log", ![t].k = 0,
                        ![t].node = SetInode(Head(tt[t].todo), next_inodes, tt[t].ino)]
    /\ UNCHANGED <<branches, node_count, children_name, shard_readers,
                   index_readers, poisoned, policy, known, adds, reads>>

\* Tree::insert, first block: every branch with index < 4 or >= 99 is read
\* locked, logged and released, one after the other.
Logged(s) == s < 4 \/ s >= 99

InsLog(t) ==
    /\ tt[t].pc = "ins_log"
    /\ LET s == tt[t].k IN
        IF s >= BranchCount
        THEN /\ tt' = [tt EXCEPT ![t].pc = "ins_wchild", ![t].k = 0]
             /\ UNCHANGED <<shard_readers, index_readers>>
        ELSE IF ~Logged(s)
        THEN /\ tt' = [tt EXCEPT ![t].k = s + 1]
             /\ UNCHANGED <<shard_readers, index_readers>>
        ELSE /\ CanRead(t, s)
             /\ IF poisoned[s]
                THEN /\ tt' = [tt EXCEPT ![t] = Panicked(@)]
                     /\ DropReads(t)
                ELSE /\ tt' = [tt EXCEPT ![t].k = s + 1]
                     /\ UNCHANGED <<shard_readers, index_readers>>
    /\ UNCHANGED <<branches, node_count, next_inodes, children_name,
                   poisoned, policy, issued, known, adds, reads>>

\* Tree::insert, second block: under the child shard's write lock the node is
\* pushed; when the parent lives in the same shard its child list is appended
\* under the same lock and insert returns.
InsChild(t) ==
    /\ tt[t].pc = "ins_wchild"
    /\ LET child == tt[t].node
           s == ShardOf(child.inode)
           pushed == PushNode(branches, child)
       IN
        /\ CanWrite(t, s)
        /\ IF poisoned[s]
           THEN /\ tt' = [tt EXCEPT ![t] = Panicked(@)]
                /\ UNCHANGED <<branches, node_count, poisoned>>
           ELSE IF SameBranch(child.inode, tt[t].ino)
           THEN IF InRange(pushed, tt[t].ino)
                THEN /\ branches' = PushChild(pushed, tt[t].ino, child.inode)
                     /\ node_count' = node_count + 1
                     /\ tt' = [tt EXCEPT ![t].pc = "add_index"]
                     /\ UNCHANGED poisoned
                ELSE /\ branches' = pushed
                     /\ poisoned' = [poisoned EXCEPT ![s] = TRUE]
                     /\ tt' = [tt EXCEPT ![t] = Panicked(@)]
                     /\ UNCHANGED node_count
           ELSE /\ branches' = pushed
                /\ tt' = [tt EXCEPT ![t].pc = "ins_wparent"]
                /\ UNCHANGED <<node_count, poisoned>>
    /\ UNCHANGED <<next_inodes, children_name, shard_readers, index_readers,
                   policy, issued, known, adds, reads>>

\* Tree::insert, third block: under the parent shard's write lock the child's
\* inode is appended to the parent's child list.
InsParent(t) ==
    /\ tt[t].pc = "ins_wparent"
    /\ LET s == ShardOf(tt[t].ino) IN
        /\ CanWrite(t, s)
        /\ IF poisoned[s]
           THEN /\ tt' = [tt EXCEPT ![t] = Panicked(@)]
                /\ UNCHANGED <<branches, node_count, poisoned>>
           ELSE IF InRange(branches, tt[t].ino)
           THEN /\ branches' = PushChild(branches, tt[t].ino, tt[t].node.inode)
                /\ node_count' = node_count + 1
                /\ tt' = [tt EXCEPT ![t].pc = "add_index"]
                /\ UNCHANGED poisoned
           ELSE /\ poisoned' = [poisoned EXCEPT ![s] = TRUE]
                /\ tt' = [tt EXCEPT ![t] = Panicked(@)]
                /\ UNCHANGED <<branches, node_count>>
    /\ UNCHANGED <<next_inodes, children_name, shard_readers, index_readers,
                   policy, issued, known, adds, reads>>

\* add_node_locally's tail: the name index is written under its write lock;
\* batch_add_node_locally then goes on with the next node of the list.
AddIndex(t) ==
    /\ tt[t].pc = "add_index"
    /\ CanWriteIndex(t)
    /\ children_name' = IndexInsert(children_name, tt[t].ino, tt[t].node)
    /\ known' = known \cup {tt[t].node.inode}
    /\ tt' = [tt EXCEPT ![t] =
                IF Len(tt[t].todo) > 1
                THEN [@ EXCEPT !.pc = "add_next", !.todo = Tail(@), !.node = NoNode,
                               !.acc = Append(@, tt[t].node)]
                ELSE Return(@, "unit", Append(tt[t].acc, tt[t].node))]
    /\ UNCHANGED <<branches, node_count, next_inodes, shard_readers,
                   index_readers, poisoned, policy, issued, adds, reads>>

\* readdir's page: filesystem.rs:225 asks for 85 children at a time.
PageLimit == 85

\* parent_children_indexes.iter().skip(offset).enumerate() up to index >= limit
Window(list, offset, limit) ==
    SubSeq(list, offset + 1,
           IF Len(list) < offset + limit THEN Len(list) ELSE offset + limit)

\* Tree::get(ino) / InodeManager::get_node_by_inode(ino): the shard is read
\* locked and indexed; an index past the end of the vector panics.
Get(t, i) ==
    /\ tt[t].pc = "idle"
    /\ reads < MaxReads
    /\ reads' = reads + 1
    /\ CanRead(t, ShardOf(i))
    /\ tt' = [tt EXCEPT ![t] =
                IF poisoned[ShardOf(i)] \/ ~InRange(branches, i)
                THEN Panicked(Call("get", i, <<>>, 0))
                ELSE Return(Call("get", i, <<>>, 0), "ok", <<TreeGet(branches, i)>>)]
    /\ UNCHANGED <<branches, node_count, next_inodes, children_name,
                   shard_readers, index_readers, poisoned, policy, issued, known, adds>>

\* Tree::children(ino, offset, limit), up to the loop: the parent's shard is
\* read locked and stays locked (parent_children_indexes borrows from the
\* guard) while the loop resolves the children.
StartChildren(t, p, offset) ==
    /\ tt[t].pc = "idle"
    /\ reads < MaxReads
    /\ reads' = reads + 1
    /\ CanRead(t, ShardOf(p))
    /\ LET r == CallAt("children", p, offset) IN
        IF poisoned[ShardOf(p)] \/ ~InRange(branches, p)
        THEN /\ tt' = [tt EXCEPT ![t] = Panicked(r)]
             /\ UNCHANGED shard_readers
        ELSE LET w == Window(branches[ShardOf(p)][Slot(p)].children_inodes,
                             offset, PageLimit)
             IN IF w = <<>>
                THEN /\ tt' = [tt EXCEPT ![t] = Return(r, "ok", <<>>)]
                     /\ UNCHANGED shard_readers
                ELSE /\ tt' = [tt EXCEPT ![t] = [r EXCEPT !.pc = "ch_get", !.list = w]]
                     /\ shard_readers' =
                            [shard_readers EXCEPT ![ShardOf(p)] = @ \cup {t}]
    /\ UNCHANGED <<branches, node_count, next_inodes, children_name,
                   index_readers, poisoned, policy, issued, known, adds>>

\* One turn of Tree::children's loop: self.get(child_ino)? with the parent's
\* shard still read locked; after the last child the guard is dropped.
ChGet(t) ==
    /\ tt[t].pc = "ch_get"
    /\ LET c == Head(tt[t].list) IN
        /\ CanRead(t, ShardOf(c))
        /\ IF poisoned[ShardOf(c)] \/ ~InRange(branches, c)
           THEN /\ tt' = [tt EXCEPT ![t] = Panicked(@)]
                /\ DropReads(t)
           ELSE IF Len(tt[t].list) > 1
           THEN /\ tt' = [tt EXCEPT ![t].list = Tail(@),
                                    ![t].acc = Append(@, TreeGet(branches, c))]
                /\ UNCHANGED <<shard_readers, index_readers>>
           ELSE /\ tt' = [tt EXCEPT ![t] =
                            Return(@, "ok", Append(tt[t].acc, TreeGet(branches, c)))]
                /\ DropReads(t)
    /\ UNCHANGED <<branches, node_count, next_inodes, children_name,
                   poisoned, policy, issued, known, adds, reads>>

\* InodeManager::get_child_by_name(ino, name), up to the tree access: the name
\* index is read locked; children_name.get(&ino).unwrap() panics when the
\* parent has no map.
GetChildByName(t, p, name) ==
    /\ tt[t].pc = "idle"
    /\ reads < MaxReads
    /\ reads' = reads + 1
    /\ CanReadIndex(t)
    /\ LET r == Call("get_child_by_name", p, <<name>>,
                      IndexLookup(children_name, p, name)) IN
        IF p \notin DOMAIN children_name
        THEN /\ tt' = [tt EXCEPT ![t] = Panicked(r)]
             /\ UNCHANGED index_readers
        ELSE IF name \notin DOMAIN children_name[p]
        THEN /\ tt' = [tt EXCEPT ![t] = Return(r, "none", <<>>)]
             /\ UNCHANGED index_readers
        ELSE /\ tt' = [tt EXCEPT ![t] =
                         [r EXCEPT !.pc = "gcn_get", !.k = children_name[p][name]]]
             /\ index_readers' = index_readers \cup {t}
    /\ UNCHANGED <<branches, node_count, next_inodes, children_name,
                   shard_readers, poisoned, policy, issued, known, adds>>

\* get_child_by_name's self.get_node_by_inode(*child_inode)?, the name index
\* still read locked.
GcnGet(t) ==
    /\ tt[t].pc = "gcn_get"
    /\ LET c == tt[t].k IN
        /\ CanRead(t, ShardOf(c))
        /\ tt' = [tt EXCEPT ![t] =
                    IF poisoned[ShardOf(c)] \/ ~InRange(branches, c)
                    THEN Panicked(@)
                    ELSE Return(@, "some", <<TreeGet(branches, c)>>)]
    /\ DropReads(t)
    /\ UNCHANGED <<branches, node_count, next_inodes, children_name,
                   poisoned, policy, issued, known, adds, reads>>

TreeStep ==
    \E t \in Threads :
        \/ \E p \in known, n \in Names : StartAddChild(t, p, n)
        \/ \E p \in known, b \in Batches : StartBatch(t, p, b)
        \/ AddNext(t)
        \/ InsLog(t)
        \/ InsChild(t)
        \/ InsParent(t)
        \/ AddIndex(t)
        \/ \E i \in known : Get(t, i)
        \/ \E p \in known, o \in 0..1 : StartChildren(t, p, o)
        \/ ChGet(t)
        \/ \E p \in known, n \in Names : GetChildByName(t, p, n)
        \/ GcnGet(t)

\* ------------------------------------------------------------------ backend

\* The backend's content at mount: a directory "a" that holds the files "a"
\* and "b".  The root has no "b" until a mknod creates it.
BackendInit == {<<"a">>, <<"a", "a">>, <<"a", "b">>}

\* FileType of a backend path: the entries of the root made at mount are
\* directories, everything below and everything created by mknod is a file.
KindOf(path) == IF path = <<"a">> THEN "dir" ELSE "file"

\* Backend::get_children(path): the entries directly below path, as nodes
\* with inode 0 and parent 0 and their full paths, in name order.
Listing(be, path) ==
    LET below(n) == Append(path, n) \in be
        a == IF below("a") THEN <<MkNode(0, 0, Append(path, "a"), KindOf(Append(path, "a")))>>
             ELSE <<>>
        b == IF below("b") THEN <<MkNode(0, 0, Append(path, "b"), KindOf(Append(path, "b")))>>
             ELSE <<>>
    IN a \o b

\* ------------------------------------------------------------------ filesystem.rs

\* id_tree node: the data and the ordered ids of its children
FsTreeNode(n) == [data |-> n, children |-> <<>>]

\* FileSystem::new: the root is inserted AsRoot, mapped, and given an empty
\* name map.
FsInit ==
    /\ fs_tree = <<FsTreeNode(RootNode)>>
    /\ fs_ino_mapper = [i \in {1} |-> 1]
    /\ fs_children_name = [p \in {1} |-> [n \in {} |-> 0]]
    /\ fs_readers = {}
    /\ backend = BackendInit
    /\ get_node_calls = 0
    /\ requests = 0
    /\ ft = [t \in Threads |-> Idle]

\* Option<Vec<Node>>: None, before any call
NoPage == [some |-> FALSE, list |-> <<>>]

\* get_children_by_index is not applied on its own.
PageOff ==
    /\ page_children = <<>>
    /\ page_offset = 0
    /\ page_limit = 0
    /\ page_check_empty = FALSE
    /\ page_result = NoPage
    /\ page_result_mgr = NoPage
    /\ page_pc = "off"

\* No backend.read request / no result yet
NoRequest == [called |-> FALSE, offset |-> 0, size |-> 0]

NoResult == [kind |-> "none", error |-> "", len |-> 0]

\* FileSystem::read is not applied on its own.
ReadOff ==
    /\ rd_attr_size = 0
    /\ rd_offset = 0
    /\ rd_size = 0
    /\ rd_all = FALSE
    /\ rd_backend = "simple"
    /\ rd_build = "debug"
    /\ rd_request = NoRequest
    /\ rd_calls = 0
    /\ rd_result = NoResult
    /\ rd_pc = "off"

\* No reply sent yet
NoReply == [op |-> "", ino |-> 0, name |-> "", fh |-> 0, handle |-> "",
            found |-> FALSE, code |-> ""]

\* The request translator is not running.
FuseOff ==
    /\ fuse_next_handle = 0
    /\ fuse_backend = {}
    /\ fuse_resident = <<>>
    /\ fuse_opens = <<>>
    /\ fuse_released = {}
    /\ fuse_reply = NoReply
    /\ fuse_requests = 0
    /\ fuse_pc = "off"

\* SimpleBackend::read is not applied on its own.
SimpleOff ==
    /\ sr_opens = FALSE
    /\ sr_len = 0
    /\ sr_offset = 0
    /\ sr_size = 0
    /\ sr_read_calls = 0
    /\ sr_result = NoResult
    /\ sr_pc = "off"

\* Option<T>: Some(v), and None (carrying a value of the type of v only so
\* that the two compare)
Some(v) == [some |-> TRUE, v |-> v]

None(d) == [some |-> FALSE, v |-> d]

\* S3Backend::get_children is not applied on its own.
S3Off ==
    /\ s3_ok = FALSE
    /\ s3_common_prefixes = None(<<>>)
    /\ s3_contents = None(<<>>)
    /\ s3_result = [kind |-> "none", nodes |-> <<>>]
    /\ s3_pc = "off"

\* A tag without an entry in Counter.tags
NoRecored == [present |-> FALSE, lasttime |-> 0, count |-> 0, min |-> 0,
              max |-> 0, total |-> 0]

\* A thread that holds no Tracer
NoTracer == [pc |-> "idle", tag |-> "", begin_at |-> 0, min |-> 0, max |-> 0]

\* Counter::new: no tags, nobody holds the lock.  In the other
\* specifications the counter only times the calls and is left out.
CounterInit ==
    /\ ct_clock = 0
    /\ ct_tags = [tag \in Tags |-> NoRecored]
    /\ ct_mutex = 0
    /\ ct_poisoned = FALSE
    /\ ct_divisors = {}
    /\ ct_started = 0
    /\ ct_th = [t \in Threads |-> NoTracer]

RestOff == SimpleOff /\ S3Off /\ CounterInit

Init == TreeInit /\ FsInit /\ PageOff /\ ReadOff /\ FuseOff /\ RestOff

\* Threads that have called nodes_manager.write(): add_node_locally
FsWaitingWriters == {u \in Threads : ft[u].pc = "fs_add"}

\* nodes_manager.read() returns
CanFsRead(t) ==
    policy = "writer_pref" => FsWaitingWriters \ {t} = {}

\* nodes_manager.write() returns
CanFsWrite(t) == fs_readers = {}

\* InodeManager::next_inode (filesystem.rs): ino_mapper.len() + 1
FsNextInode(mapper) == Cardinality(DOMAIN mapper) + 1

\* The tree's root taken for the mapped node.
FsNodeRoot(i) == fs_tree[1].data

\* The data of the node mapped to inode i.
FsNode(i) == fs_tree[fs_ino_mapper[i]].data

\* The nodes of the children of tree node ix, in order.
FsChildNodes(ix) ==
    [k \in 1..Len(fs_tree[ix].children) |-> fs_tree[fs_tree[ix].children[k]].data]

\* The loop breaking one turn late (i > limit for i == limit).
SkipTakeOneMore(list, offset, limit) ==
    SubSeq(list, offset + 1,
           IF limit > 0 /\ offset + limit + 1 < Len(list) THEN offset + limit + 1
           ELSE Len(list))

\* get_children_by_index's loop: children.skip(offset), cut after limit
\* entries when limit > 0.
SkipTake(list, offset, limit) ==
    SubSeq(list, offset + 1,
           IF limit > 0 /\ offset + limit < Len(list) THEN offset + limit
           ELSE Len(list))

\* check_empty answering None whether or not there are children.
FsGetChildrenAlwaysNone(children, offset, limit, check_empty) ==
    IF check_empty
    THEN [some |-> FALSE, list |-> <<>>]
    ELSE [some |-> TRUE, list |-> SkipTake(children, offset, limit)]

\* check_empty ignored: an empty parent gets an empty list.
FsGetChildrenNoCheck(children, offset, limit, check_empty) ==
    [some |-> TRUE, list |-> SkipTake(children, offset, limit)]

\* InodeManager::get_children_by_index (filesystem.rs) over the children of a
\* tree node: None (some = FALSE) when check_empty is set and there is no
\* child, else the children from offset on, at most limit when limit > 0.
FsGetChildrenByIndex(children, offset, limit, check_empty) ==
    IF check_empty /\ children = <<>>
    THEN [some |-> FALSE, list |-> <<>>]
    ELSE [some |-> TRUE, list |-> SkipTake(children, offset, limit)]

\* nodes_tree.insert(TreeNode::new(child), UnderNode(parent_index)) followed by
\* ino_mapper.insert(next_inode, child_index): the tree after the insert.
FsTreeInsert(tree, parent_ix, child) ==
    [Append(tree, FsTreeNode(child)) EXCEPT
        ![parent_ix].children = Append(@, Len(tree) + 1)]

FsMapperInsert(mapper, inode, ix) ==
    [i \in DOMAIN mapper \cup {inode} |-> IF i = inode THEN ix ELSE mapper[i]]

FsUnchangedManager ==
    UNCHANGED <<fs_tree, fs_ino_mapper, fs_children_name>>

\* FileSystem::lookup, first block: under the read lock the parent's name map
\* is unwrapped (a parent without a map panics) and searched.
Lookup(t, p, name) ==
    /\ ft[t].pc = "idle"
    /\ requests < MaxRequests
    /\ requests' = requests + 1
    /\ CanFsRead(t)
    /\ LET r == Call("lookup", p, <<name>>, IndexLookup(fs_children_name, p, name)) IN
        ft' = [ft EXCEPT ![t] =
                 IF p \notin DOMAIN fs_children_name
                 THEN Panicked(r)
                 ELSE IF name \in DOMAIN fs_children_name[p]
                 THEN Return(r, "ok", <<FsNode(fs_children_name[p][name])>>)
                 ELSE [r EXCEPT !.pc = "fc_lock"]]
    /\ FsUnchangedManager
    /\ UNCHANGED <<fs_readers, backend, get_node_calls>>

\* fetch_child_by_name, entering its block: the read lock is taken and the
\* parent is resolved; the lock stays held for the backend call.
FcLock(t) ==
    /\ ft[t].pc = "fc_lock"
    /\ CanFsRead(t)
    /\ fs_readers' = fs_readers \cup {t}
    /\ ft' = [ft EXCEPT ![t] =
                IF ft[t].ino \in DOMAIN fs_ino_mapper
                THEN [@ EXCEPT !.pc = "fc_backend"]
                ELSE Panicked(@)]
    /\ FsUnchangedManager
    /\ UNCHANGED <<backend, get_node_calls, requests>>

\* fetch_child_by_name's backend call, made with the read lock held: the
\* backend resolves parent.path/name or fails (the path does not exist, or
\* the call itself fails); the lock is dropped.  lookup unwraps the result:
\* .ok().unwrap() panics on an error.
FcBackend(t, io_ok) ==
    /\ ft[t].pc = "fc_backend"
    /\ LET path == Append(FsNode(ft[t].ino).path, ft[t].arg[1]) IN
        ft' = [ft EXCEPT ![t] =
                 IF io_ok /\ path \in backend
                 THEN [@ EXCEPT !.pc = "fs_add", !.io = "ok",
                                !.todo = <<MkNode(0, 0, path, KindOf(path))>>]
                 ELSE Panicked([@ EXCEPT !.io = "err"])]
    /\ fs_readers' = fs_readers \ {t}
    /\ get_node_calls' = get_node_calls + 1
    /\ FsUnchangedManager
    /\ UNCHANGED <<backend, requests>>

\* FileSystem::add_node_locally: under the write lock the next inode is taken
\* from the mapper's size, the node is inserted under its parent and mapped,
\* and the name map is written.  The caller goes on: lookup and mknod return
\* the node, fetch_children adds the next node of the listing.
FsAdd(t) ==
    /\ ft[t].pc = "fs_add"
    /\ CanFsWrite(t)
    /\ LET p == ft[t].ino
           next_inode == FsNextInode(fs_ino_mapper)
           child == SetInode(Head(ft[t].todo), next_inode, p)
       IN
        /\ fs_tree' = FsTreeInsert(fs_tree, fs_ino_mapper[p], child)
        /\ fs_ino_mapper' = FsMapperInsert(fs_ino_mapper, next_inode, Len(fs_tree) + 1)
        /\ fs_children_name' = IndexInsert(fs_children_name, p, child)
        /\ ft' = [ft EXCEPT ![t] =
                    IF ft[t].op = "lookup" THEN Return(@, "ok", <<child>>)
                    ELSE IF ft[t].op = "mknod" THEN Return(@, "some", <<child>>)
                    ELSE IF Len(ft[t].todo) > 1 THEN [@ EXCEPT !.todo = Tail(@)]
                    ELSE [@ EXCEPT !.pc = "rd_local2", !.todo = <<>>]]
    /\ UNCHANGED <<fs_readers, backend, get_node_calls, requests>>

\* FileSystem::readdir up to the first readdir_local: the parent's NodeId is
\* read from the mapper (an unmapped inode is an error value), then
\* get_children_by_index(index, offset, 85, true) answers None for a parent
\* without children and the page otherwise.
Readdir(t, p, offset) ==
    /\ ft[t].pc = "idle"
    /\ requests < MaxRequests
    /\ requests' = requests + 1
    /\ CanFsRead(t)
    /\ LET r == CallAt("readdir", p, offset) IN
        ft' = [ft EXCEPT ![t] =
                 IF p \notin DOMAIN fs_ino_mapper
                 THEN Return(r, "err", <<>>)
                 ELSE LET local == FsGetChildrenByIndex(FsChildNodes(fs_ino_mapper[p]),
                                                        offset, PageLimit, TRUE)
                      IN IF local.some THEN Return(r, "ok", local.list)
                         ELSE [r EXCEPT !.pc = "fch_backend"]]
    /\ FsUnchangedManager
    /\ UNCHANGED <<fs_readers, backend, get_node_calls>>

\* fetch_children: the parent node is cloned under the read lock, the lock is
\* dropped and the backend lists the parent's path; an error is returned to
\* readdir's caller, a listing is added node by node.
FchBackend(t, io_ok) ==
    /\ ft[t].pc = "fch_backend"
    /\ CanFsRead(t)
    /\ LET l == Listing(backend, FsNode(ft[t].ino).path) IN
        ft' = [ft EXCEPT ![t] =
                 IF ~io_ok THEN Return([@ EXCEPT !.io = "err"], "err", <<>>)
                 ELSE IF l = <<>> THEN [@ EXCEPT !.pc = "rd_local2", !.io = "ok"]
                 ELSE [@ EXCEPT !.pc = "fs_add", !.io = "ok", !.todo = l]]
    /\ FsUnchangedManager
    /\ UNCHANGED <<fs_readers, backend, get_node_calls, requests>>

\* readdir's second readdir_local, check_empty = false: the page at offset.
RdLocal2(t) ==
    /\ ft[t].pc = "rd_local2"
    /\ CanFsRead(t)
    /\ ft' = [ft EXCEPT ![t] =
                Return(@, "ok",
                       FsGetChildrenByIndex(FsChildNodes(fs_ino_mapper[ft[t].ino]),
                                            ft[t].off, PageLimit, FALSE).list)]
    /\ FsUnchangedManager
    /\ UNCHANGED <<fs_readers, backend, get_node_calls, requests>>

\* FileSystem::mknod, first block: under the read lock the parent's children
\* are listed (limit -1: all of them) and searched for the name; a name that
\* is there makes mknod return None.
Mknod(t, p, name) ==
    /\ ft[t].pc = "idle"
    /\ requests < MaxRequests
    /\ requests' = requests + 1
    /\ CanFsRead(t)
    /\ LET r == Call("mknod", p, <<name>>, IndexLookup(fs_children_name, p, name)) IN
        ft' = [ft EXCEPT ![t] =
                 IF p \notin DOMAIN fs_ino_mapper
                 THEN Panicked(r)
                 ELSE LET children ==
                            FsGetChildrenByIndex(FsChildNodes(fs_ino_mapper[p]),
                                                 0, -1, FALSE).list
                      IN IF \E k \in 1..Len(children) : FileName(children[k].path) = name
                         THEN Return(r, "none", <<>>)
                         ELSE [r EXCEPT !.pc = "mk_backend"]]
    /\ FsUnchangedManager
    /\ UNCHANGED <<fs_readers, backend, get_node_calls>>

\* mknod's backend call, unwrapped: creating a regular file where a directory
\* is (File::create fails), or a failing call, panics; otherwise the path
\* exists from now on (an existing file is truncated) and the new node
\* (inode 0, size 4096, the requested kind) goes to add_node_locally.
MkBackend(t, io_ok) ==
    /\ ft[t].pc = "mk_backend"
    /\ LET path == Append(FsNode(ft[t].ino).path, ft[t].arg[1]) IN
        IF io_ok /\ ~(path \in backend /\ KindOf(path) = "dir")
        THEN /\ backend' = backend \cup {path}
             /\ ft' = [ft EXCEPT ![t].pc = "fs_add", ![t].io = "ok",
                                 ![t].todo = <<MkNode(0, ft[t].ino, path, "file")>>]
        ELSE /\ ft' = [ft EXCEPT ![t] = Panicked([@ EXCEPT !.io = "err"])]
             /\ UNCHANGED backend
    /\ FsUnchangedManager
    /\ UNCHANGED <<fs_readers, get_node_calls, requests>>

\* FileSystem::getattr: under the read lock get_node_by_inode(ino) is
\* unwrapped; an inode the mapper does not hold panics.  pre is history:
\* the inode when it was mapped at the call, else 0.
Getattr(t, i) ==
    /\ ft[t].pc = "idle"
    /\ requests < MaxRequests
    /\ requests' = requests + 1
    /\ CanFsRead(t)
    /\ LET r == Call("getattr", i, <<>>, IF i \in DOMAIN fs_ino_mapper THEN i ELSE 0) IN
        ft' = [ft EXCEPT ![t] =
                 IF i \in DOMAIN fs_ino_mapper
                 THEN Return(r, "some", <<FsNode(i)>>)
                 ELSE Panicked(r)]
    /\ FsUnchangedManager
    /\ UNCHANGED <<fs_readers, backend, get_node_calls>>

FsStep ==
    \E t \in Threads :
        \/ \E i \in 1..(Cardinality(DOMAIN fs_ino_mapper) + 1) : Getattr(t, i)
        \/ \E p \in DOMAIN fs_ino_mapper, n \in Names : Lookup(t, p, n)
        \/ FcLock(t)
        \/ \E io_ok \in BOOLEAN : FcBackend(t, io_ok)
        \/ FsAdd(t)
        \/ \E p \in DOMAIN fs_ino_mapper, o \in 0..1 : Readdir(t, p, o)
        \/ \E io_ok \in BOOLEAN : FchBackend(t, io_ok)
        \/ RdLocal2(t)
        \/ \E p \in DOMAIN fs_ino_mapper, n \in Names : Mknod(t, p, n)
        \/ \E io_ok \in BOOLEAN : MkBackend(t, io_ok)

\* The sharded tree and its manager, the facade standing still.
TreeNext == TreeStep /\ UNCHANGED <<fsVars, pageVars, readVars, fuseVars, restVars>>

SpecTree == Init /\ [][TreeNext]_vars

\* add_node_locally alone, called by several threads.
TreeAddStep ==
    \E t \in Threads :
        \/ \E p \in known, n \in Names : StartAddChildUpTo(t, p, n, MaxAddsAlone)
        \/ AddNext(t)
        \/ InsLog(t)
        \/ InsChild(t)
        \/ InsParent(t)
        \/ AddIndex(t)

TreeAddNext == TreeAddStep /\ UNCHANGED <<fsVars, pageVars, readVars, fuseVars, restVars>>

SpecTreeAdd == Init /\ [][TreeAddNext]_vars

\* The facade, the sharded tree standing still.
Next == FsStep /\ UNCHANGED <<treeVars, pageVars, readVars, fuseVars, restVars>>

Spec == Init /\ [][Next]_vars

\* ------------------------------------------------------------------ paging

\* The limits the callers pass: readdir_local 85, mknod -1; and 0.
Limits == {-1, 0, PageLimit}

\* A parent with n children (named 1..n in list order) and the arguments of
\* one call.
PageInit ==
    /\ page_children \in {[k \in 1..n |-> k] : n \in 0..MaxChildren}
    /\ page_offset \in 0..MaxOffset
    /\ page_limit \in Limits
    /\ page_check_empty \in BOOLEAN
    /\ page_result = NoPage
    /\ page_result_mgr = NoPage
    /\ page_pc = "call"

\* Tree::children(ino, offset, limit as usize) without the locks: -1 as usize
\* is larger than any list.
TreeChildren(children, offset, limit) ==
    Window(children, offset, IF limit < 0 THEN Len(children) ELSE limit)

\* InodeManager::get_children_by_index (manager.rs): the page comes from
\* Tree::children; None when check_empty is set, the page is empty and offset
\* is 0; the loop copies the page and breaks at i = limit when limit > 0.
MgrGetChildrenByIndex(children, offset, limit, check_empty) ==
    LET page == TreeChildren(children, offset, limit) IN
    IF check_empty /\ page = <<>> /\ offset = 0
    THEN [some |-> FALSE, list |-> <<>>]
    ELSE [some |-> TRUE, list |-> SkipTake(page, 0, limit)]

\* One call of get_children_by_index, in both managers.
PageApply ==
    /\ page_pc = "call"
    /\ page_result' = FsGetChildrenByIndex(page_children, page_offset,
                                           page_limit, page_check_empty)
    /\ page_result_mgr' = MgrGetChildrenByIndex(page_children, page_offset,
                                                page_limit, page_check_empty)
    /\ page_pc' = "done"
    /\ UNCHANGED <<page_children, page_offset, page_limit, page_check_empty>>

PageNext == PageApply /\ UNCHANGED <<treeVars, fsVars, readVars, fuseVars, restVars>>

InitPage == TreeInit /\ FsInit /\ PageInit /\ ReadOff /\ FuseOff /\ RestOff

SpecPage == InitPage /\ [][PageNext]_vars

\* ------------------------------------------------------------------ read

Backends == {"simple", "filer"}

Builds == {"debug", "release"}

Min(a, b) == IF a < b THEN a ELSE b

Ok(len) == [kind |-> "ok", error |-> "", len |-> len]

Err(error) == [kind |-> "err", error |-> error, len |-> 0]

\* One file of rd_attr_size bytes and the arguments of one read.
ReadInit ==
    /\ rd_attr_size \in 0..MaxSize
    /\ rd_offset \in 0..(MaxSize + 1)
    /\ rd_size \in 0..(MaxSize + 1)
    /\ rd_all \in BOOLEAN
    /\ rd_backend \in Backends
    /\ rd_build \in Builds
    /\ rd_request = NoRequest
    /\ rd_calls = 0
    /\ rd_result = NoResult
    /\ rd_pc = "call"

\* FileSystem::read: the test that ends the call before the backend is asked
ReadRejectsNever(attr_size, offset) == FALSE

ReadRejects(attr_size, offset) == attr_size < offset

\* FileSystem::read: the size handed to backend.read
ReadSize(all, attr_size, offset, size) ==
    IF all THEN attr_size
    ELSE IF attr_size < offset + size THEN attr_size - offset
    ELSE size

\* FileSystem::read up to the call of backend.read
FsRead ==
    /\ rd_pc = "call"
    /\ IF ReadRejects(rd_attr_size, rd_offset)
       THEN /\ rd_result' = Err("Naive")
            /\ rd_pc' = "done"
            /\ UNCHANGED <<rd_request, rd_calls>>
       ELSE /\ rd_request' = [called |-> TRUE, offset |-> rd_offset,
                              size |-> ReadSize(rd_all, rd_attr_size,
                                                rd_offset, rd_size)]
            /\ rd_calls' = rd_calls + 1
            /\ rd_pc' = "backend"
            /\ UNCHANGED rd_result
    /\ UNCHANGED <<rd_attr_size, rd_offset, rd_size, rd_all, rd_backend, rd_build>>
    /\ UNCHANGED <<treeVars, fsVars, pageVars, fuseVars, restVars>>

\* SimpleBackend::synchronized_read_from_file on a file of len bytes that
\* opens and reads without an I/O error
SimpleReadUnclamped(len, offset, size) ==
    IF offset = len THEN Ok(0)
    ELSE IF offset > len THEN Err("Backend")
    ELSE Ok(size)

SimpleRead(len, offset, size) ==
    IF offset = len THEN Ok(0)
    ELSE IF offset > len THEN Err("Backend")
    ELSE Ok(IF offset + size > len THEN len - offset ELSE size)

SimpleBackendRead ==
    /\ rd_pc = "backend"
    /\ rd_backend = "simple"
    /\ rd_result' = SimpleRead(rd_attr_size, rd_request.offset, rd_request.size)
    /\ rd_pc' = "done"
    /\ UNCHANGED <<rd_attr_size, rd_offset, rd_size, rd_all, rd_backend, rd_build,
                   rd_request, rd_calls>>
    /\ UNCHANGED <<treeVars, fsVars, pageVars, fuseVars, restVars>>

\* SeaweedfsBackend::get_page: the header "Range: bytes={offset}-{offset +
\* limit - 1}" in usize.  offset + limit = 0 overflows: a panic with overflow
\* checks, usize::MAX (wrapped) without.
Range(offset, limit, build) ==
    IF offset + limit = 0
    THEN [panic |-> build = "debug", first |-> offset, last |-> 0, wrapped |-> TRUE]
    ELSE [panic |-> FALSE, first |-> offset, last |-> offset + limit - 1,
          wrapped |-> FALSE]

\* The filer's answers to a GET with that header for a file of len bytes, as
\* SeaweedfsBackend::get turns them into a Result.  A range inside the file
\* is served.  A range that is malformed (last < first) or starts at or
\* after the end is the server's choice: an error status, or the header is
\* ignored and the whole body sent.
FilerAnswers(len, range) ==
    IF (~range.wrapped /\ range.last < range.first) \/ range.first >= len
    THEN {Err("Backend"), Ok(len)}
    ELSE {Ok((IF range.wrapped THEN len - 1 ELSE Min(range.last, len - 1))
             - range.first + 1)}

FilerBackendRead ==
    /\ rd_pc = "backend"
    /\ rd_backend = "filer"
    /\ LET range == Range(rd_request.offset, rd_request.size, rd_build) IN
       IF range.panic
       THEN /\ rd_result' = [kind |-> "panic", error |-> "", len |-> 0]
            /\ rd_pc' = "panicked"
       ELSE /\ rd_result' \in FilerAnswers(rd_attr_size, range)
            /\ rd_pc' = "done"
    /\ UNCHANGED <<rd_attr_size, rd_offset, rd_size, rd_all, rd_backend, rd_build,
                   rd_request, rd_calls>>
    /\ UNCHANGED <<treeVars, fsVars, pageVars, fuseVars, restVars>>

ReadNext == FsRead \/ SimpleBackendRead \/ FilerBackendRead

InitRead == TreeInit /\ FsInit /\ PageOff /\ ReadInit /\ FuseOff /\ RestOff

SpecRead == InitRead /\ [][ReadNext]_vars

\* ------------------------------------------------------------------ fs/fuse.rs

\* The inodes and file handles the kernel sends (it never sends inode 0).
Inos == 1..MaxIno

Handles == 0..MaxHandle

\* Fuse::new over FileSystem::new: the counter at 2, only the root resident.
\* The backend's root holds some of the names, all of them files.
FuseInit ==
    /\ fuse_next_handle = 2
    /\ fuse_backend \in SUBSET Names
    /\ fuse_resident = <<>>
    /\ fuse_opens = <<>>
    /\ fuse_released = {}
    /\ fuse_reply = NoReply
    /\ fuse_requests = 0
    /\ fuse_pc = "on"

\* The handle ids issued so far, and the state of a handle id
FuseIssued == {fuse_opens[i].fh : i \in 1..Len(fuse_opens)}

HandleState(fh) ==
    IF fh \notin FuseIssued THEN "Closed"
    ELSE IF fh \in fuse_released THEN "Released"
    ELSE "Opened"

\* One request is handled at a time (the handlers take &mut self).
FuseReply(reply) ==
    /\ fuse_pc = "on"
    /\ fuse_requests < MaxFuseRequests
    /\ fuse_requests' = fuse_requests + 1
    /\ fuse_reply' = reply
    /\ UNCHANGED fuse_pc
    /\ UNCHANGED <<treeVars, fsVars, pageVars, readVars, restVars>>

\* Fuse::open: reply.opened(0, 0)
FuseOpen(ino) ==
    /\ FuseReply([NoReply EXCEPT !.op = "open", !.ino = ino, !.fh = 0,
                                 !.code = "OK"])
    /\ fuse_opens' = Append(fuse_opens, [op |-> "open", ino |-> ino, fh |-> 0])
    /\ UNCHANGED <<fuse_next_handle, fuse_backend, fuse_resident, fuse_released>>

\* Fuse::opendir: reply.opened(1, 0) for the root, reply.opened(0, 0) otherwise
FuseOpendir(ino) ==
    LET fh == IF ino = 1 THEN 1 ELSE 0 IN
    /\ FuseReply([NoReply EXCEPT !.op = "opendir", !.ino = ino, !.fh = fh,
                                 !.code = "OK"])
    /\ fuse_opens' = Append(fuse_opens, [op |-> "opendir", ino |-> ino, fh |-> fh])
    /\ UNCHANGED <<fuse_next_handle, fuse_backend, fuse_resident, fuse_released>>

\* Fuse::read: reply.error(ENOSYS)
FuseRead(ino, fh) ==
    /\ FuseReply([NoReply EXCEPT !.op = "read", !.ino = ino, !.fh = fh,
                                 !.handle = HandleState(fh), !.code = "ENOSYS"])
    /\ UNCHANGED <<fuse_next_handle, fuse_backend, fuse_resident, fuse_opens,
                   fuse_released>>

\* Fuse::flush: reply.error(ENOSYS)
FuseFlush(ino, fh) ==
    /\ FuseReply([NoReply EXCEPT !.op = "flush", !.ino = ino, !.fh = fh,
                                 !.handle = HandleState(fh), !.code = "ENOSYS"])
    /\ UNCHANGED <<fuse_next_handle, fuse_backend, fuse_resident, fuse_opens,
                   fuse_released>>

\* Fuse::fsync: reply.error(ENOSYS)
FuseFsync(ino, fh) ==
    /\ FuseReply([NoReply EXCEPT !.op = "fsync", !.ino = ino, !.fh = fh,
                                 !.handle = HandleState(fh), !.code = "ENOSYS"])
    /\ UNCHANGED <<fuse_next_handle, fuse_backend, fuse_resident, fuse_opens,
                   fuse_released>>

\* Fuse::release: reply.ok()
FuseRelease(ino, fh) ==
    /\ FuseReply([NoReply EXCEPT !.op = "release", !.ino = ino, !.fh = fh,
                                 !.handle = HandleState(fh), !.code = "OK"])
    /\ fuse_released' = fuse_released \cup {fh}
    /\ UNCHANGED <<fuse_next_handle, fuse_backend, fuse_resident, fuse_opens>>

\* fs/filesystem.rs FileSystem::lookup: Some(attr) when a child of the
\* parent in the tree has the name, else what backend.getattr says of the
\* joined path; None when the parent is not in ino_mapper.  Only the root
\* has children here.
FuseFsLookup(ino, name) ==
    /\ ino \in 1..(Len(fuse_resident) + 1)
    /\ ino = 1
    /\ \/ \E i \in 1..Len(fuse_resident) : fuse_resident[i] = name
       \/ name \in fuse_backend

\* Fuse::lookup: reply.entry for Some(attr), reply.error(ENOSYS) for None
FuseLookup(parent, name) ==
    LET found == FuseFsLookup(parent, name) IN
    /\ FuseReply([NoReply EXCEPT !.op = "lookup", !.ino = parent,
                                 !.name = name, !.found = found,
                                 !.code = IF found THEN "OK" ELSE "ENOSYS"])
    /\ UNCHANGED <<fuse_next_handle, fuse_backend, fuse_resident, fuse_opens,
                   fuse_released>>

\* Fuse::readdir of the root over FileSystem::readdir: an empty listing
\* removes the root's children from the tree; otherwise the listed names
\* that are not in the tree yet are added after the others.
FuseReaddir ==
    /\ FuseReply([NoReply EXCEPT !.op = "readdir", !.ino = 1, !.code = "OK"])
    /\ IF fuse_backend = {}
       THEN fuse_resident' = <<>>
       ELSE \E added \in [1..Cardinality(fuse_backend \ {fuse_resident[i] :
                                  i \in 1..Len(fuse_resident)}) -> fuse_backend] :
               /\ \A i, j \in DOMAIN added : i /= j => added[i] /= added[j]
               /\ \A i \in DOMAIN added : \A k \in 1..Len(fuse_resident) :
                      added[i] /= fuse_resident[k]
               /\ fuse_resident' = fuse_resident \o added
    /\ UNCHANGED <<fuse_next_handle, fuse_backend, fuse_opens, fuse_released>>

FuseNext ==
    \/ \E ino \in Inos : FuseOpen(ino)
    \/ \E ino \in Inos : FuseOpendir(ino)
    \/ \E ino \in Inos, fh \in Handles : FuseRead(ino, fh)
    \/ \E ino \in Inos, fh \in Handles : FuseFlush(ino, fh)
    \/ \E ino \in Inos, fh \in Handles : FuseFsync(ino, fh)
    \/ \E ino \in Inos, fh \in Handles : FuseRelease(ino, fh)
    \/ \E parent \in Inos, name \in Names : FuseLookup(parent, name)
    \/ FuseReaddir

InitFuse == TreeInit /\ FsInit /\ PageOff /\ ReadOff /\ FuseInit /\ RestOff

SpecFuse == InitFuse /\ [][FuseNext]_vars

\* ------------------------------------------------------ backend/simple.rs

\* One file of sr_len bytes, or none that opens, and the arguments of one read.
SimpleInit ==
    /\ sr_opens \in BOOLEAN
    /\ sr_len \in 0..MaxSize
    /\ sr_offset \in 0..(MaxSize + 1)
    /\ sr_size \in 0..(MaxSize + 1)
    /\ sr_read_calls = 0
    /\ sr_result = NoResult
    /\ sr_pc = "call"

\* synchronized_read_from_file gets as far as file.seek and file.read_exact
SimpleReaches(len, offset) == offset < len

\* SimpleBackend::read: the whole of synchronized_read_from_file
SimpleReadFile ==
    /\ sr_pc = "call"
    /\ IF ~sr_opens
       THEN /\ sr_result' = Err("Io")
            /\ UNCHANGED sr_read_calls
       ELSE /\ sr_result' = SimpleRead(sr_len, sr_offset, sr_size)
            /\ sr_read_calls' = IF SimpleReaches(sr_len, sr_offset)
                                THEN sr_read_calls + 1 ELSE sr_read_calls
    /\ sr_pc' = "done"
    /\ UNCHANGED <<sr_opens, sr_len, sr_offset, sr_size>>
    /\ UNCHANGED <<treeVars, fsVars, pageVars, readVars, fuseVars, s3Vars, counterVars>>

SimpleNext == SimpleReadFile

InitSimple ==
    /\ TreeInit /\ FsInit /\ PageOff /\ ReadOff /\ FuseOff
    /\ SimpleInit /\ S3Off /\ CounterInit

SpecSimple == InitSimple /\ [][SimpleNext]_vars

\* ---------------------------------------------------------- backend/s3.rs

\* The sequences over S of length at most n
SeqsUpTo(S, n) == UNION {[1..k -> S] : k \in 0..n}

\* CommonPrefix and Object as rusoto_s3 decodes them: every field an Option.
\* A listing carries the prefix of each common prefix and the key and the
\* size of each object; a listing without common prefixes (without objects)
\* leaves the whole field None.
CommonPrefixes == {[prefix |-> Some(n)] : n \in Names}

Objects == {[key |-> Some(n), size |-> Some(sz)] : n \in Names, sz \in 0..MaxObjectSize}

OptionalSeqs(S) ==
    {None(<<>>)} \cup {Some(l) : l \in SeqsUpTo(S, MaxEntries) \ {<<>>}}

S3Init ==
    /\ s3_ok \in BOOLEAN
    /\ s3_common_prefixes \in OptionalSeqs(CommonPrefixes)
    /\ s3_contents \in OptionalSeqs(Objects)
    /\ s3_result = [kind |-> "none", nodes |-> <<>>]
    /\ s3_pc = "call"

\* The permissions and the size get_children gives its nodes
DirPerm == 493

FilePerm == 420

DirSize == 4096

\* Node::new(0, 0, path, FileAttr { ino: 0, size, kind, perm, .. })
S3Node(path, kind, perm, size) ==
    [inode |-> 0, parent |-> 0, attr_ino |-> 0, path |-> path, kind |-> kind,
     perm |-> perm, size |-> size]

\* nodes1: one Directory node for each common prefix that has a prefix
S3Directories(common_prefixes) ==
    IF ~common_prefixes.some THEN <<>>
    ELSE LET kept == SelectSeq(common_prefixes.v, LAMBDA e : e.prefix.some)
         IN [k \in 1..Len(kept) |->
                S3Node(kept[k].prefix.v, "Directory", DirPerm, DirSize)]

\* The objects nodes2 is made from: those that have a key
S3Keyed(contents) ==
    IF ~contents.some THEN <<>>
    ELSE SelectSeq(contents.v, LAMBDA e : e.key.some)

\* nodes2: one RegularFile node for each of them; object.size.unwrap()
S3Files(contents) ==
    LET kept == S3Keyed(contents)
    IN [k \in 1..Len(kept) |->
           S3Node(kept[k].key.v, "RegularFile", FilePerm, kept[k].size.v)]

S3UnwrapPanics(contents) ==
    LET kept == S3Keyed(contents)
    IN \E k \in 1..Len(kept) : ~kept[k].size.some

\* nodes1.append(&mut nodes2) the other way round
S3FilesFirst(common_prefixes, contents) ==
    S3Files(contents) \o S3Directories(common_prefixes)

\* nodes1.append(&mut nodes2)
S3Append(common_prefixes, contents) ==
    S3Directories(common_prefixes) \o S3Files(contents)

\* S3Backend::get_children
S3GetChildren ==
    /\ s3_pc = "call"
    /\ IF ~s3_ok
       THEN /\ s3_result' = [kind |-> "err", nodes |-> <<>>]
            /\ s3_pc' = "done"
       ELSE IF S3UnwrapPanics(s3_contents)
       THEN /\ s3_result' = [kind |-> "panic", nodes |-> <<>>]
            /\ s3_pc' = "panicked"
       ELSE /\ s3_result' = [kind |-> "ok",
                              nodes |-> S3Append(s3_common_prefixes, s3_contents)]
            /\ s3_pc' = "done"
    /\ UNCHANGED <<s3_ok, s3_common_prefixes, s3_contents>>
    /\ UNCHANGED <<treeVars, fsVars, pageVars, readVars, fuseVars, simpleVars,
                   counterVars>>

S3Next == S3GetChildren

InitS3 ==
    /\ TreeInit /\ FsInit /\ PageOff /\ ReadOff /\ FuseOff
    /\ SimpleOff /\ S3Init /\ CounterInit

SpecS3 == InitS3 /\ [][S3Next]_vars

\* ---------------------------------------------------------- counter/mod.rs

\* test_counter: Counter::new(2)
Interval == 2

\* begin_at.elapsed(): the clock is taken not to be set back while a Tracer
\* lives, so elapsed() and duration_since(UNIX_EPOCH) are always Ok
Elapsed(begin_at) == ct_clock - begin_at

\* entry.count as u32: the low 32 bits, as two halves of 16 bits
AsU32(n) == (n % 65536) + 65536 * ((n \div 65536) % 65536)

\* The Recored drop inserts with count: 0
NewRecoredZeroCount(lasttime, min, max, total) ==
    [present |-> TRUE, lasttime |-> lasttime, count |-> 0, min |-> min,
     max |-> max, total |-> total]

\* The Recored drop inserts: Recored { lasttime, count: 1, min, max, total }
NewRecored(lasttime, min, max, total) ==
    [present |-> TRUE, lasttime |-> lasttime, count |-> 1, min |-> min,
     max |-> max, total |-> total]

\* The if / else if that moves max or min to cost
Widen(entry, cost) ==
    IF cost > entry.max THEN [entry EXCEPT !.max = cost]
    ELSE IF cost < entry.min THEN [entry EXCEPT !.min = cost]
    ELSE entry

\* Time passes.
Tick ==
    /\ ct_clock < MaxClock
    /\ ct_clock' = ct_clock + 1
    /\ UNCHANGED <<ct_tags, ct_mutex, ct_poisoned, ct_divisors, ct_started, ct_th>>
    /\ UNCHANGED <<treeVars, fsVars, pageVars, readVars, fuseVars, simpleVars, s3Vars>>

\* Counter::start: a Tracer for tag, begin_at = SystemTime::now()
CounterStart(t, tag) ==
    /\ ct_th[t].pc = "idle"
    /\ ct_started < MaxDrops
    /\ ct_started' = ct_started + 1
    /\ ct_th' = [ct_th EXCEPT ![t].pc = "running", ![t].tag = tag,
                              ![t].begin_at = ct_clock]
    /\ UNCHANGED <<ct_clock, ct_tags, ct_mutex, ct_poisoned, ct_divisors>>
    /\ UNCHANGED <<treeVars, fsVars, pageVars, readVars, fuseVars, simpleVars, s3Vars>>

\* drop: self.tags.lock().unwrap() waits for the lock; a poisoned lock
\* panics
DropLock(t) ==
    /\ ct_th[t].pc = "running"
    /\ ct_mutex = 0
    /\ IF ct_poisoned
       THEN /\ ct_th' = [ct_th EXCEPT ![t].pc = "panicked"]
            /\ UNCHANGED ct_mutex
       ELSE /\ ct_mutex' = t
            /\ ct_th' = [ct_th EXCEPT ![t].pc = "get_mut"]
    /\ UNCHANGED <<ct_clock, ct_tags, ct_poisoned, ct_divisors, ct_started>>
    /\ UNCHANGED <<treeVars, fsVars, pageVars, readVars, fuseVars, simpleVars, s3Vars>>

\* drop: tags.get_mut(&self.tag), now, and the test of the interval; when
\* the interval is over the average is logged, total / entry.count as u32
DropGetMut(t) ==
    /\ ct_th[t].pc = "get_mut"
    /\ LET entry == ct_tags[ct_th[t].tag] IN
       IF entry.present /\ ct_clock < entry.lasttime + Interval
       THEN /\ ct_th' = [ct_th EXCEPT ![t].pc = "cost"]
            /\ UNCHANGED <<ct_divisors, ct_mutex, ct_poisoned>>
       ELSE IF entry.present /\ AsU32(entry.count) = 0
       THEN /\ ct_divisors' = ct_divisors \cup {0}
            /\ ct_th' = [ct_th EXCEPT ![t].pc = "panicked"]
            /\ ct_mutex' = 0
            /\ ct_poisoned' = TRUE
       ELSE /\ ct_divisors' = IF entry.present
                              THEN ct_divisors \cup {AsU32(entry.count)}
                              ELSE ct_divisors
            /\ ct_th' = [ct_th EXCEPT ![t].pc = "new_min"]
            /\ UNCHANGED <<ct_mutex, ct_poisoned>>
    /\ UNCHANGED <<ct_clock, ct_tags, ct_started>>
    /\ UNCHANGED <<treeVars, fsVars, pageVars, readVars, fuseVars, simpleVars, s3Vars>>

\* drop, inside the interval: cost, max or min, count += 1, total += cost,
\* return (the guard is dropped)
DropUpdate(t) ==
    /\ ct_th[t].pc = "cost"
    /\ LET tag == ct_th[t].tag
           cost == Elapsed(ct_th[t].begin_at)
           entry == Widen(ct_tags[tag], cost)
       IN ct_tags' = [ct_tags EXCEPT ![tag] =
                         [entry EXCEPT !.count = entry.count + 1,
                                       !.total = entry.total + cost]]
    /\ ct_mutex' = 0
    /\ ct_th' = [ct_th EXCEPT ![t] = NoTracer]
    /\ UNCHANGED <<ct_clock, ct_poisoned, ct_divisors, ct_started>>
    /\ UNCHANGED <<treeVars, fsVars, pageVars, readVars, fuseVars, simpleVars, s3Vars>>

\* drop, a new Recored: min: self.begin_at.elapsed().unwrap()
DropNewMin(t) ==
    /\ ct_th[t].pc = "new_min"
    /\ ct_th' = [ct_th EXCEPT ![t].pc = "new_max",
                              ![t].min = Elapsed(ct_th[t].begin_at)]
    /\ UNCHANGED <<ct_clock, ct_tags, ct_mutex, ct_poisoned, ct_divisors, ct_started>>
    /\ UNCHANGED <<treeVars, fsVars, pageVars, readVars, fuseVars, simpleVars, s3Vars>>

\* drop, a new Recored: max: self.begin_at.elapsed().unwrap()
DropNewMax(t) ==
    /\ ct_th[t].pc = "new_max"
    /\ ct_th' = [ct_th EXCEPT ![t].pc = "new_total",
                              ![t].max = Elapsed(ct_th[t].begin_at)]
    /\ UNCHANGED <<ct_clock, ct_tags, ct_mutex, ct_poisoned, ct_divisors, ct_started>>
    /\ UNCHANGED <<treeVars, fsVars, pageVars, readVars, fuseVars, simpleVars, s3Vars>>

\* drop, a new Recored: total, tags.insert, return (the guard is dropped)
DropInsert(t) ==
    /\ ct_th[t].pc = "new_total"
    /\ ct_tags' = [ct_tags EXCEPT ![ct_th[t].tag] =
                       NewRecored(ct_th[t].begin_at, ct_th[t].min, ct_th[t].max,
                                  Elapsed(ct_th[t].begin_at))]
    /\ ct_mutex' = 0
    /\ ct_th' = [ct_th EXCEPT ![t] = NoTracer]
    /\ UNCHANGED <<ct_clock, ct_poisoned, ct_divisors, ct_started>>
    /\ UNCHANGED <<treeVars, fsVars, pageVars, readVars, fuseVars, simpleVars, s3Vars>>

\* The steps of thread t's drop
DropStep(t) ==
    \/ DropLock(t)
    \/ DropGetMut(t)
    \/ DropUpdate(t)
    \/ DropNewMin(t)
    \/ DropNewMax(t)
    \/ DropInsert(t)

CounterNext ==
    \/ Tick
    \/ \E t \in Threads, tag \in Tags : CounterStart(t, tag)
    \/ \E t \in Threads : DropLock(t)
    \/ \E t \in Threads : DropGetMut(t)
    \/ \E t \in Threads : DropUpdate(t)
    \/ \E t \in Threads : DropNewMin(t)
    \/ \E t \in Threads : DropNewMax(t)
    \/ \E t \in Threads : DropInsert(t)

InitCounter ==
    /\ TreeInit /\ policy = "reader_pref" /\ FsInit /\ PageOff /\ ReadOff /\ FuseOff
    /\ SimpleOff /\ S3Off /\ CounterInit

\* A thread that can take a step of drop is scheduled in the end.
SpecCounter ==
    /\ InitCounter
    /\ [][CounterNext]_vars
    /\ \A t \in Threads : WF_vars(DropStep(t))

\* ------------------------------------------------------------------ views

\* Every (shard, index) place of the tree that holds an entry.
Places == {<<s, i>> \in Shards \X (1..(MaxAddsAlone + 2)) : i <= Len(branches[s])}

Entry(pl) == branches[pl[1]][pl[2]]

\* Tree::new fills inode 0's place, branches[0][0], with a second handle to the
\* root; no inode number leads a caller there.
Placeholder == <<0, 1>>

\* The nodes resident in the tree.
Resident == {Entry(pl).inode : pl \in Places \ {Placeholder}}

\* The basenames of the entries of child list l, resolved by inode number.
NamesOf(l) ==
    [i \in 1..Len(l) |->
        LET ns == {n \in Resident : n.inode = l[i]}
        IN IF ns = {} THEN "" ELSE FileName((CHOOSE n \in ns : TRUE).path)]

\* How often name occurs among the basenames of child list l.
Occurrences(l, name) == Cardinality({i \in 1..Len(l) : NamesOf(l)[i] = name})

\* The child list the tree keeps for inode p (where p's place exists).
ChildList(p) == branches[ShardOf(p)][Slot(p)].children_inodes

\* Inodes whose Tree::insert has returned.
Inserted ==
    known \cup {tt[t].node.inode : t \in {u \in Threads : tt[u].pc = "add_index"}}

\* ------------------------------------------------------------------ claims

\* C2: no parent's child list contains two children whose paths have the same
\* basename, after any sequence of add_child and batch_add_children calls.
C2_UniqueBasenames ==
    \A pl \in Places :
        \A n \in Names : Occurrences(Entry(pl).children_inodes, n) <= 1

\* C3: every inode i whose insert has completed is stored at shard i mod S,
\* position i / S: get(i) returns the node whose inode and attr.inode are i.
C3_InsertedAtItsPlace ==
    \A i \in Inserted :
        /\ InRange(branches, i)
        /\ TreeGet(branches, i).inode = i
        /\ TreeGet(branches, i).attr_ino = i

\* C4: every child inode a reader of children(p, ..) finds in p's child list
\* resolves through get to an existing shard position.
C4_ReaderInRange ==
    \A t \in Threads :
        tt[t].pc = "ch_get" =>
            \A k \in 1..Len(tt[t].list) : InRange(branches, tt[t].list[k])

\* u keeps t from the lock t is waiting for.
BlockedBy(t, u) ==
    /\ u # t
    /\ \/ /\ tt[t].pc = "ch_get"
          /\ policy = "writer_pref"
          /\ u \in WaitingWriters(ShardOf(Head(tt[t].list)))
       \/ /\ tt[t].pc = "gcn_get"
          /\ policy = "writer_pref"
          /\ u \in WaitingWriters(ShardOf(tt[t].k))
       \/ /\ tt[t].pc = "ins_log"
          /\ tt[t].k < BranchCount
          /\ policy = "writer_pref"
          /\ u \in WaitingWriters(tt[t].k)
       \/ /\ tt[t].pc = "ins_wchild"
          /\ u \in shard_readers[ShardOf(tt[t].node.inode)]
       \/ /\ tt[t].pc = "ins_wparent"
          /\ u \in shard_readers[ShardOf(tt[t].ino)]
       \/ /\ tt[t].pc = "add_index"
          /\ u \in index_readers

\* A set of threads each of which waits for a lock that another thread of the
\* set keeps from it: none of them ever runs again.
Deadlocked(X) ==
    /\ X # {}
    /\ \A t \in X : \E u \in X : BlockedBy(t, u)

\* C5: no interleaving of insert, get and children reaches a state in which a
\* thread waits forever for a shard lock, whatever the lock's reader/writer
\* policy.
C5_NoLockDeadlock == \A X \in SUBSET Threads : ~Deadlocked(X)

\* C7: add_child(p, n) with basename(n.path) already in p's name-index map
\* rejects the insertion: the entry keeps pointing to the existing child, the
\* caller gets the existing child back and p gains no child of that name.
C7_AddChildRejectsDuplicate ==
    \A t \in Threads :
        (tt[t].op = "add_child" /\ tt[t].pc = "idle" /\ tt[t].pre # 0) =>
            /\ IndexLookup(children_name, tt[t].ino, tt[t].arg[1]) = tt[t].pre
            /\ tt[t].rv[1].inode = tt[t].pre
            /\ Occurrences(ChildList(tt[t].ino), tt[t].arg[1]) = 1

\* C8: batch_add_children(p, nodes) skips every node whose basename is in p's
\* name index or occurred earlier in the batch: afterwards p has exactly one
\* child per basename of the batch.
C8_BatchSkipsDuplicates ==
    \A t \in Threads :
        (tt[t].op = "batch" /\ tt[t].pc = "idle") =>
            \A k \in 1..Len(tt[t].arg) :
                Occurrences(ChildList(tt[t].ino), tt[t].arg[k]) = 1

\* C9: inode numbers are issued from 2 upwards, strictly increasing in
\* allocation order; no two resident nodes and no two nodes being inserted
\* share an inode number; inode 1 denotes the root and only the root.
C9_InodesUnique ==
    /\ \A k \in 1..Len(issued) : issued[k] >= 2
    /\ \A j, k \in 1..Len(issued) : j < k => issued[j] < issued[k]
    /\ \A a, b \in Places \ {Placeholder} :
            a # b => Entry(a).inode.inode # Entry(b).inode.inode
    /\ \A t, u \in Threads :
            (t # u /\ tt[t].node # NoNode /\ tt[u].node # NoNode) =>
                tt[t].node.inode # tt[u].node.inode
    /\ TreeGet(branches, 1) = RootNode
    /\ \A n \in Resident : n.inode = 1 => n = RootNode
    /\ \A n \in Resident : n.inode # 1 => n.inode >= 2

\* C9 witness: two add_child calls are in flight at once, each with its inode
\* allocated, while a node other than the root is already resident.
C9_Witness ==
    /\ \E t, u \in Threads :
            /\ t # u
            /\ tt[t].pc \in {"ins_log", "ins_wchild", "ins_wparent", "add_index"}
            /\ tt[u].pc \in {"ins_log", "ins_wchild", "ins_wparent", "add_index"}
    /\ Cardinality(Resident) >= 2

\* ------------------------------------------------------------------ facade views

\* The nodes recorded as children of inode p in the facade's tree.
FsChildrenOf(p) == FsChildNodes(fs_ino_mapper[p])

\* How many children of p carry the basename name.
FsOccurrences(p, name) ==
    Cardinality({k \in 1..Len(FsChildrenOf(p)) :
                    FileName(FsChildrenOf(p)[k].path) = name})

\* Request op(p, ..) of thread t has returned successfully.
Returned(t, op, p) ==
    /\ ft[t].op = op
    /\ ft[t].ino = p
    /\ ft[t].pc = "idle"
    /\ ft[t].rk = "ok"

\* C1: two lookup(p, name) calls made while name was not in the name index
\* (so they overlapped), the backend resolving it, and no other request: once
\* both have returned one child of that name is resident under p, the index
\* holds it, both got the same inode and get_node was called at most twice.
C1_ConcurrentLookupOneChild ==
    \A t, u \in Threads : \A p \in DOMAIN fs_ino_mapper : \A n \in Names :
        ( /\ t # u
          /\ requests = 2
          /\ Returned(t, "lookup", p) /\ ft[t].arg = <<n>> /\ ft[t].pre = 0
          /\ Returned(u, "lookup", p) /\ ft[u].arg = <<n>> /\ ft[u].pre = 0 )
        => /\ FsOccurrences(p, n) = 1
           /\ IndexLookup(fs_children_name, p, n) = ft[t].rv[1].inode
           /\ ft[t].rv[1].inode = ft[u].rv[1].inode
           /\ get_node_calls <= 2

\* C6: two readdir(p, h, 0) calls, the only requests so far, on a parent that
\* had no recorded children: once both have returned, p's child list holds
\* every entry of the backend listing exactly once.
C6_ConcurrentReaddirNoDuplicates ==
    \A t, u \in Threads : \A p \in DOMAIN fs_ino_mapper :
        ( /\ t # u
          /\ requests = 2
          /\ Returned(t, "readdir", p) /\ ft[t].off = 0
          /\ Returned(u, "readdir", p) /\ ft[u].off = 0 )
        => LET l == Listing(backend, FsNode(p).path) IN
            \A k \in 1..Len(l) : FsOccurrences(p, FileName(l[k].path)) = 1

\* C10: lookup(p, name) on a resident directory p, also one that has no
\* recorded children and so no name-index map yet, does not abort the
\* process: it gets past its read of the name index.  (What lookup does when
\* the backend then fails to resolve the name is C11's subject.)
C10_LookupOnResidentDirNoPanic ==
    \A t \in Threads :
        (ft[t].op = "lookup" /\ ft[t].ino \in DOMAIN fs_ino_mapper
            /\ FsNode(ft[t].ino).kind = "dir")
        => ~(ft[t].pc = "panicked" /\ ft[t].at = "idle")

\* ------------------------------------------------------------------ claims on requests

\* t's request and then u's are the only two requests made, and u's was made
\* after t's had returned.
InSuccession(t, u) ==
    /\ t # u
    /\ requests = 2
    /\ ft[t].seq = 1 /\ ft[t].fin = 1 /\ ft[t].pc = "idle"
    /\ ft[u].seq = 2

\* C11: a lookup(p, name) whose backend call fails to resolve the name
\* returns the NotFound error value, and the step leaves the tree, the child
\* lists, the name index and the allocator as they were.
C11_LookupFailureReturnsNotFound ==
    [][\A t \in Threads :
          (ft[t].op = "lookup" /\ ft[t].io = "" /\ ft'[t].io = "err") =>
              /\ ft'[t].pc = "idle"
              /\ ft'[t].rk = "err"
              /\ UNCHANGED <<fs_tree, fs_ino_mapper, fs_children_name>>]_vars

\* C12: lookup(p, name) twice in succession returns the same attributes, the
\* second call does not call the backend and inserts nothing: one get_node
\* call in all, one child of that name, one name-index entry under p.
C12_RepeatedLookupSame ==
    \A t, u \in Threads : \A p \in DOMAIN fs_ino_mapper : \A n \in Names :
        ( /\ InSuccession(t, u)
          /\ Returned(t, "lookup", p) /\ ft[t].arg = <<n>>
          /\ Returned(u, "lookup", p) /\ ft[u].arg = <<n>> )
        => /\ ft[u].rv = ft[t].rv
           /\ get_node_calls = 1
           /\ FsOccurrences(p, n) = 1
           /\ Cardinality(DOMAIN fs_children_name[p]) = 1
           /\ Len(fs_tree) = 2

\* C12 witness: a lookup that resolved a name through the backend, followed
\* by a second lookup of the same name that has returned.
C12_Witness ==
    \E t, u \in Threads : \E n \in Names :
        /\ InSuccession(t, u)
        /\ Returned(t, "lookup", 1) /\ ft[t].arg = <<n>> /\ ft[t].io = "ok"
        /\ Returned(u, "lookup", 1) /\ ft[u].arg = <<n>>

\* C13: getattr(i) for an inode number that was never issued returns
\* NotFound as an error value: it neither panics nor returns a node.
C13_GetattrUnknownInodeNotFound ==
    \A t \in Threads :
        (ft[t].op = "getattr" /\ ft[t].pre = 0) =>
            /\ ft[t].pc = "idle"
            /\ ft[t].rk = "err"

\* ------------------------------------------------------------------ claims on paging

\* The two managers' results of the call.
PageResults == {page_result, page_result_mgr}

\* C14: for a parent with N recorded children and an offset o, the page
\* readdir reads (limit 85) holds exactly the children at positions
\* [o, min(o + 85, N)) in list order: min(85, N - o) entries when o < N, none
\* when o >= N.
C14_ReaddirPage ==
    (page_pc = "done" /\ page_limit = PageLimit) =>
        \A r \in PageResults :
            r.some =>
                LET N == Len(page_children)
                    o == page_offset
                    count == IF o >= N THEN 0 ELSE IF N - o < 85 THEN N - o ELSE 85
                IN /\ Len(r.list) = count
                   /\ \A k \in 1..count : r.list[k] = page_children[o + k]

\* C14 witness: a page was read from the middle of a list that goes on for
\* more than 85 children after the offset.
C14_Witness ==
    /\ page_pc = "done"
    /\ page_limit = PageLimit
    /\ page_offset > 0
    /\ Len(page_children) > page_offset + 85
    /\ page_result.some
    /\ Len(page_result.list) = 85

\* C15: children(p, offset, limit, check_empty) returns None exactly when
\* check_empty is set, offset is 0 and p has no recorded children.
C15_NoneIffEmptyAtZero ==
    page_pc = "done" =>
        \A r \in PageResults :
            (~r.some) <=>
                (page_check_empty /\ page_offset = 0 /\ page_children = <<>>)

\* ------------------------------------------------------------------ claims on readdir

\* A request of kind op is made by t in this step.
Starts(t, op) ==
    /\ requests' = requests + 1
    /\ ft'[t].seq = requests'
    /\ ft'[t].op = op

C17_ReaddirFailureLeavesEmpty ==
    [][\A t \in Threads :
          /\ (ft[t].op = "readdir" /\ ft[t].io = "" /\ ft'[t].io = "err") =>
                /\ ft'[t].pc = "idle"
                /\ ft'[t].rk = "err"
                /\ UNCHANGED <<fs_tree, fs_ino_mapper, fs_children_name>>
          /\ (Starts(t, "readdir") /\ FsChildrenOf(ft'[t].ino) = <<>>) =>
                ft'[t].pc = "fch_backend"]_vars

\* C17 witness: a readdir on the root failed in the backend and returned the
\* error, the root has no children, and a second readdir is at the backend.
C17_Witness ==
    \E t, u \in Threads :
        /\ t # u
        /\ ft[t].op = "readdir" /\ ft[t].pc = "idle" /\ ft[t].rk = "err"
        /\ ft[t].io = "err" /\ ft[t].ino = 1
        /\ FsChildrenOf(1) = <<>>
        /\ ft[u].op = "readdir" /\ ft[u].ino = 1 /\ ft[u].pc = "fch_backend"
        /\ ft[t].fin < ft[u].seq

\* ------------------------------------------------------------------ claims on mknod

\* A child with the path p.path/name is recorded under p.
FsHasChild(p, name) ==
    \E k \in 1..Len(FsChildrenOf(p)) :
        FsChildrenOf(p)[k].path = Append(FsNode(p).path, name)

\* C18: mknod(p, name) for a name that exists under p fails (the facade's
\* None) in its first block: backend.mknod is not called, no inode is
\* allocated, p's child list and the name index stay as they were.
C18_MknodExistingFails ==
    [][\A t \in Threads :
          (Starts(t, "mknod") /\ FsHasChild(ft'[t].ino, ft'[t].arg[1])) =>
              /\ ft'[t].pc = "idle"
              /\ ft'[t].rk = "none"
              /\ UNCHANGED <<fs_tree, fs_ino_mapper, fs_children_name, backend>>]_vars

\* C18 witness: a mknod for a name recorded under its parent has returned
\* None.
C18_Witness ==
    \E t \in Threads :
        /\ ft[t].op = "mknod" /\ ft[t].pc = "idle" /\ ft[t].rk = "none"
        /\ FsHasChild(ft[t].ino, ft[t].arg[1])

\* C19: after a successful mknod(p, name) that returned node n, lookup(p,
\* name) returns attributes with n's inode, without a backend call and
\* without inserting another node.
C19_LookupAfterMknod ==
    \A t, u \in Threads : \A p \in DOMAIN fs_ino_mapper : \A n \in Names :
        ( /\ InSuccession(t, u)
          /\ ft[t].op = "mknod" /\ ft[t].ino = p /\ ft[t].arg = <<n>>
          /\ ft[t].rk = "some"
          /\ Returned(u, "lookup", p) /\ ft[u].arg = <<n>> )
        => /\ ft[u].rv[1].attr_ino = ft[t].rv[1].inode
           /\ ft[u].rv[1].inode = ft[t].rv[1].inode
           /\ get_node_calls = 0
           /\ FsOccurrences(p, n) = 1
           /\ Len(fs_tree) = 2

\* C19 witness: mknod created a node under the root and the lookup of its
\* name that followed has returned.
C19_Witness ==
    \E t, u \in Threads : \E n \in Names :
        /\ InSuccession(t, u)
        /\ ft[t].op = "mknod" /\ ft[t].ino = 1 /\ ft[t].arg = <<n>>
        /\ ft[t].rk = "some" /\ ft[t].rv[1].inode = 2
        /\ Returned(u, "lookup", 1) /\ ft[u].arg = <<n>>

\* C20: when backend.mknod fails, mknod returns the failure as an error value
\* and the step changes neither the tree nor the name index nor the
\* allocator.
C20_MknodFailureReported ==
    [][\A t \in Threads :
          (ft[t].op = "mknod" /\ ft[t].io = "" /\ ft'[t].io = "err") =>
              /\ ft'[t].pc = "idle"
              /\ ft'[t].rk = "err"
              /\ UNCHANGED <<fs_tree, fs_ino_mapper, fs_children_name>>]_vars

\* C21: whenever read has asked the backend, for either value of the read-all
\* flag, the request starts at the offset argument and its length is
\* min(size, S - offset), so offset plus length does not exceed S.
C21_ReadRequestBounded ==
    rd_request.called =>
        /\ rd_request.offset = rd_offset
        /\ rd_request.size = Min(rd_size, rd_attr_size - rd_offset)
        /\ rd_request.offset + rd_request.size <= rd_attr_size

\* C22: a read with offset > S has ended with the facade's out-of-range
\* error (Error::Naive carrying the offsets) and backend.read was not called.
C22_ReadPastEndFails ==
    (rd_pc \notin {"off", "call"} /\ rd_offset > rd_attr_size) =>
        /\ rd_pc = "done"
        /\ rd_result = Err("Naive")
        /\ rd_calls = 0
        /\ ~rd_request.called

\* C22 witness: a read with offset S + 1 has returned.
C22_Witness ==
    /\ rd_pc = "done"
    /\ rd_offset = rd_attr_size + 1
    /\ rd_result.kind = "err"

\* C23: a read at offset S that has left the backend has returned an empty
\* buffer with success, with the simple and the filer backend alike.
C23_ReadAtEndEmpty ==
    (rd_offset = rd_attr_size /\ rd_pc \in {"done", "panicked"}) =>
        rd_result = Ok(0)

\* C24: every handle id replied by open or opendir comes from the counter
\* that starts at 2: it is not zero, and the ids strictly increase from one
\* open to the next, so no two opens got the same id.
C24_HandlesFromCounter ==
    /\ \A i \in 1..Len(fuse_opens) :
           fuse_opens[i].fh /= 0 /\ fuse_opens[i].fh >= 2
    /\ \A i, j \in 1..Len(fuse_opens) :
           i < j => fuse_opens[i].fh < fuse_opens[j].fh

\* C25: read, flush, fsync or release with a handle id that was never issued
\* (Closed) or has been released already is answered with the bad-handle
\* error.
C25_StaleHandleRejected ==
    ( /\ fuse_reply.op \in {"read", "flush", "fsync", "release"}
      /\ fuse_reply.handle \in {"Closed", "Released"} )
    => fuse_reply.code = "EBADF"

\* C26: a lookup that found no entry, neither in the tree nor in the
\* backend, is answered with ENOENT.
C26_LookupMissingENOENT ==
    (fuse_reply.op = "lookup" /\ ~fuse_reply.found) => fuse_reply.code = "ENOENT"

\* ------------------------------------------------------------------ claims on the name index and the child lists

\* C27: in every state, also between the steps of a running add_child, each
\* name-index entry (p, name) -> c has a c that get(c) resolves to the node
\* with inode c, parent p and basename name.
C27_IndexEntryResolves ==
    \A p \in DOMAIN children_name : \A name \in DOMAIN children_name[p] :
        LET c == children_name[p][name] IN
        /\ InRange(branches, c)
        /\ TreeGet(branches, c).inode = c
        /\ TreeGet(branches, c).parent = p
        /\ FileName(TreeGet(branches, c).path) = name

\* C28: in every state, each resident node c other than the root has an
\* entry for its basename in the name-index map of its parent.
C28_IndexInLockstep ==
    \A c \in Resident :
        c.inode /= 1 =>
            /\ c.parent \in DOMAIN children_name
            /\ FileName(c.path) \in DOMAIN children_name[c.parent]

\* No thread is inside Tree::insert.
NoInsertInProgress ==
    \A t \in Threads : tt[t].pc \notin {"ins_log", "ins_wchild", "ins_wparent"}

\* How often inode i occurs in the child list kept at place pl.
InList(pl, i) ==
    Cardinality({k \in 1..Len(Entry(pl).children_inodes) :
                    Entry(pl).children_inodes[k] = i})

\* C29: with no insert in progress, every resident node c other than the
\* root has a resident parent whose child list holds c's inode exactly once,
\* and no other node's child list holds it.
C29_ChildListedOnceUnderParent ==
    NoInsertInProgress =>
        \A pl \in Places \ {Placeholder} :
            LET c == Entry(pl).inode IN
            c.inode /= 1 =>
                \E pp \in Places \ {Placeholder} :
                    /\ Entry(pp).inode.inode = c.parent
                    /\ InList(pp, c.inode) = 1
                    /\ \A q \in Places \ {pp} : InList(q, c.inode) = 0

\* l is a prefix of m
IsPrefix(l, m) == Len(l) <= Len(m) /\ SubSeq(m, 1, Len(l)) = l

\* C30: every step leaves each child list a prefix of what it becomes: the
\* lists only grow by appending.
C30_ChildListAppendOnly ==
    [][\A s \in Shards : \A i \in 1..Len(branches[s]) :
          /\ i <= Len(branches'[s])
          /\ IsPrefix(branches[s][i].children_inodes,
                      branches'[s][i].children_inodes)]_vars

\* C30 witness: a child list that has grown twice.
C30_Witness ==
    \E pl \in Places : Len(Entry(pl).children_inodes) >= 2

\* ------------------------------------------------------------------ claims on residency

\* C31: once the insert of inode i has completed, get(i) succeeds in every
\* later state and returns the node that was inserted, with its inode,
\* parent and path: no step removes or replaces it.
C31_ResidentStaysRetrievable ==
    [][\A n \in Resident :
          n.inode \in Inserted =>
              /\ ~poisoned'[ShardOf(n.inode)]
              /\ InRange(branches', n.inode)
              /\ TreeGet(branches', n.inode) = n]_vars

\* C32: every node whose insert through add_child or batch_add_children has
\* completed has a non-zero inode and attr.ino equal to it, in the tree and
\* in every copy a request has returned.
C32_AttrInodeAgrees ==
    /\ \A n \in Resident :
           n.inode \in Inserted => n.inode /= 0 /\ n.attr_ino = n.inode
    /\ \A t \in Threads : \A k \in 1..Len(tt[t].rv) :
           tt[t].rv[k].inode /= 0 /\ tt[t].rv[k].attr_ino = tt[t].rv[k].inode

\* C32 witness: a node added by a batch is in the tree, its insert has
\* completed, and a get has returned a copy of an added node.
C32_Witness ==
    /\ \E t \in Threads : tt[t].op = "batch" /\ tt[t].pc = "idle"
                           /\ Len(tt[t].rv) = 2
    /\ \E t \in Threads : tt[t].op = "get" /\ tt[t].rk = "ok"
                           /\ tt[t].rv[1].inode >= 2

\* ------------------------------------------------------------------ claims on locking

\* C33: a thread of children(p, ..) that is about to take a shard lock to
\* resolve a child through get holds no shard read lock: p's shard lock was
\* released after the window of child inodes was copied.
C33_ChildrenResolvesUnlocked ==
    \A t \in Threads :
        tt[t].pc = "ch_get" => \A s \in Shards : t \notin shard_readers[s]

\* C34: in every state a concurrent get or children call can observe, a
\* child entry that is resident in its shard has its inode in its parent's
\* child list, whether or not child and parent share a shard.
C34_InsertOneStep ==
    \A pl \in Places \ {Placeholder} :
        LET n == Entry(pl).inode IN
        n.inode /= 1 =>
            /\ InRange(branches, n.parent)
            /\ \E k \in 1..Len(ChildList(n.parent)) :
                   ChildList(n.parent)[k] = n.inode

\* C35: while a thread has a backend call in flight, a getattr or an
\* index-hit lookup arriving on another thread gets the manager's read lock
\* at once, under either lock policy and also when an insert is waiting
\* for the lock.
C35_FastPathNotBehindBackend ==
    LET arriving == NumThreads + 1 IN
    (\E t \in Threads : ft[t].pc = "fc_backend") => CanFsRead(arriving)

\* ------------------------------------------------------------------ claims on readdir after other requests

\* t's last request is the last one made, and started after every other
\* thread's requests had returned.
AfterAllOthers(t) ==
    /\ ft[t].fin = requests
    /\ \A u \in Threads \ {t} : ft[u].pc = "idle" /\ ft[u].fin < ft[t].seq

\* C36: once readdir(p, h, 0) has returned successfully, with the backend
\* listing unchanged since, every entry the backend lists for p is resident
\* under p, also when an earlier lookup or mknod had recorded a child of p.
C36_ReaddirMakesListingResident ==
    \A t \in Threads : \A p \in DOMAIN fs_ino_mapper :
        (Returned(t, "readdir", p) /\ ft[t].off = 0 /\ AfterAllOthers(t)) =>
            LET l == Listing(backend, FsNode(p).path) IN
            \A k \in 1..Len(l) : FsHasChild(p, FileName(l[k].path))

\* ---- claims on the backends

\* C37: the local-directory backend's read on a file of len bytes returns
\* exactly min(size, len - offset) bytes when offset < len, an empty buffer
\* with success when offset = len, and an error without reading when
\* offset > len; what it returns is never longer than size.
C37_SimpleReadClamps ==
    (sr_pc = "done" /\ sr_opens) =>
        /\ sr_offset < sr_len =>
               sr_result = Ok(Min(sr_size, sr_len - sr_offset))
        /\ sr_offset = sr_len => sr_result = Ok(0) /\ sr_read_calls = 0
        /\ sr_offset > sr_len => sr_result.kind = "err" /\ sr_read_calls = 0
        /\ sr_result.len <= sr_size

C37_Witness ==
    /\ sr_pc = "done"
    /\ sr_opens
    /\ sr_offset > 0
    /\ sr_offset < sr_len
    /\ sr_size > sr_len - sr_offset
    /\ sr_result = Ok(sr_len - sr_offset)

\* What a listing field holds, the empty sequence when it is None
Listed(field) == IF field.some THEN field.v ELSE <<>>

\* C38: the object-store backend's get_children returns every common-prefix
\* entry as a Directory node with mode 0755, followed by every object entry
\* as a RegularFile node with mode 0644 and the size of the object, all with
\* inode 0 and parent 0: directories come before files.
C38_S3DirectoriesThenFiles ==
    (s3_pc /= "call" /\ s3_pc /= "off" /\ s3_ok) =>
        LET dirs == Listed(s3_common_prefixes)
            objs == Listed(s3_contents)
            nodes == s3_result.nodes
        IN /\ s3_result.kind = "ok"
           /\ Len(nodes) = Len(dirs) + Len(objs)
           /\ \A k \in 1..Len(dirs) :
                  /\ nodes[k].kind = "Directory"
                  /\ nodes[k].perm = 493
                  /\ nodes[k].path = dirs[k].prefix.v
           /\ \A k \in 1..Len(objs) :
                  /\ nodes[Len(dirs) + k].kind = "RegularFile"
                  /\ nodes[Len(dirs) + k].perm = 420
                  /\ nodes[Len(dirs) + k].size = objs[k].size.v
                  /\ nodes[Len(dirs) + k].path = objs[k].key.v
           /\ \A k \in 1..Len(nodes) :
                  nodes[k].inode = 0 /\ nodes[k].parent = 0

C38_Witness ==
    /\ s3_pc = "done"
    /\ s3_result.kind = "ok"
    /\ Len(s3_result.nodes) = 3
    /\ s3_result.nodes[1].kind = "Directory"
    /\ s3_result.nodes[2].kind = "Directory"
    /\ s3_result.nodes[3].kind = "RegularFile"
    /\ s3_result.nodes[3].size = MaxObjectSize

\* ---- claims on the timing counter

\* A thread is inside drop, from before lock() to the return
InDrop(t) == ct_th[t].pc \notin {"idle", "panicked"}

\* C39 (state part): nobody panics and the lock is not poisoned; the lock
\* is held only by a thread inside drop; every Recored of a tag has
\* count >= 1 and min <= max; no average was divided by zero.
C39_RecordsSound ==
    /\ \A t \in Threads : ct_th[t].pc /= "panicked"
    /\ ~ct_poisoned
    /\ ct_mutex /= 0 => ct_th[ct_mutex].pc \notin {"idle", "running", "panicked"}
    /\ \A tag \in Tags :
           ct_tags[tag].present => ct_tags[tag].count >= 1 /\ ct_tags[tag].min <= ct_tags[tag].max
    /\ 0 \notin ct_divisors

\* C39: for any interleaving of Tracer drops from several threads on one
\* shared Counter, every drop completes (the lock of the tags is released
\* each time, so every thread gets through), every Recored of a tag has
\* count >= 1 and min <= max, and no logged average divides by zero.
C39_DropsCompleteRecordsSound ==
    /\ []C39_RecordsSound
    /\ \A t \in Threads : InDrop(t) ~> (ct_th[t].pc = "idle" /\ ct_mutex /= t)

C39_Witness ==
    /\ \A t \in Threads : ct_th[t].pc = "idle"
    /\ ct_started = MaxDrops
    /\ ct_mutex = 0
    /\ ct_divisors /= {}
    /\ \E tag \in Tags :
           /\ ct_tags[tag].present
           /\ ct_tags[tag].count >= 2
           /\ ct_tags[tag].min < ct_tags[tag].max

====
